---- MODULE Spec2Model ----
(***************************************************************************)
(* A model of schema_registry_converter:                                   *)
(*   - the wire framing codec (schema-registry-serde/src/payload.rs),      *)
(*   - the caching, replica-racing registry client                         *)
(*     (schema-registry-client/src/client/cached.rs).                      *)
(*                                                                         *)
(* SpecFraming drives the two framing functions over bounded inputs.       *)
(* Spec drives concurrent calls of the cached client against a registry.   *)
(* SpecParse drives parse_response over sample responses.                  *)
(* SpecConfig drives the config builder and from_conf.                     *)
(* SpecStrategy applies SubjectNameStrategy::key and ::value.              *)
(* SpecBody serialises the register request body.                          *)
(* SpecAvro drives the Avro serialize_value and deserialize over registry  *)
(* contents with references; SpecProto the blocking ProtoDecoder, its     *)
(* cache and add_files; SpecJson the JSON serializer and deserializer;     *)
(* SpecSerde the Avro, JSON and Protobuf codecs side by side.              *)
(***************************************************************************)
EXTENDS Integers, Sequences, FiniteSets, TLC

VARIABLES
    \* ---- framing codec harness
    wire,          \* Option<&[u8]>: the buffer handed to extract_id_and_payload
    origin,        \* "raw": wire is an arbitrary input; "framed": wire was built by insert_magic_byte_and_id
    fr_id,         \* the id last given to insert_magic_byte_and_id
    fr_payload,    \* the payload last given to insert_magic_byte_and_id
    extracted,     \* NotRun, or the Result of extract_id_and_payload(wire)
    \* ---- CachedSchemaRegistryClient
    id_cache,      \* DashMap<u32, Schema>
    subject_cache, \* DashMap<String, u32>
    task,          \* the calls in progress, one slot per concurrent caller
    \* ---- parse_response harness
    response,      \* the reqwest::Response handed to parse_response::<T>, with T
    parsed,        \* NotRun, or the Result of parse_response(response)
    \* ---- client construction harness
    conf,          \* the SchemaRegistryConfig under construction
    built,         \* NotRun, or the Result of from_conf(conf)
    raced,         \* NotRun, or how the built client's first exec_http_calls went
    call,          \* the last call made on the config or the client, with its arguments
    \* ---- pure function harness (SubjectNameStrategy, the register request body)
    arg,           \* the value a function is applied to
    ret,           \* NotRun, or the function applied and what it returned
    \* ---- codec harness (Avro and JSON serializers and deserializers, ProtoDecoder)
    registry,      \* the content of the Schema Registry the codec's client reads
    job            \* the codec call in progress: its inputs, position, fetches and result

frVars == <<wire, origin, fr_id, fr_payload, extracted>>
clVars == <<id_cache, subject_cache, task>>
prVars == <<response, parsed>>
cfVars == <<conf, built, raced, call>>
puVars == <<arg, ret>>
coVars == <<registry, job>>
vars == <<wire, origin, fr_id, fr_payload, extracted, id_cache, subject_cache, task,
          response, parsed, conf, built, raced, call, arg, ret, registry, job>>

\* what the actions of each part leave alone
notFr == <<clVars, prVars, cfVars, puVars, coVars>>
notCl == <<frVars, prVars, cfVars, puVars, coVars>>
notPr == <<frVars, clVars, cfVars, puVars, coVars>>
notCf == <<frVars, clVars, prVars, puVars, coVars>>
notPu == <<frVars, clVars, prVars, cfVars, coVars>>
notCo == <<frVars, clVars, prVars, cfVars, puVars>>

(***************************************************************************)
(* Option and Result                                                       *)
(***************************************************************************)
None == <<"None">>
Some(x) == <<"Some", x>>
Ok(x) == <<"Ok", x>>
Err(e) == <<"Err", e>>
IsOk(r) == r[1] = "Ok"
IsErr(r) == r[1] = "Err"
NotRun == <<"NotRun">>

(***************************************************************************)
(* Bounds of the framing harness                                           *)
(***************************************************************************)
\* longest raw input handed to extract_id_and_payload
MaxData == 6
\* longest payload handed to insert_magic_byte_and_id
MaxPayload == 2

\* byte values of raw inputs
ByteSample == {0, 1, 7, 255}
\* byte values of payloads
PayloadSample == {173, 222}

(***************************************************************************)
(* u32.  TLC's integers are 32-bit signed, so a u32 is kept as its two     *)
(* 16-bit halves <<hi, lo>>, value hi * 65536 + lo.                        *)
(***************************************************************************)
U32(hi, lo) == <<hi, lo>>
\* 0, 7, 256, 65536, 0x01020304, 0x7FFFFFFF, 0x80000000, 0xFFFFFFFF
IdSample == {U32(0, 0), U32(0, 7), U32(0, 256), U32(1, 0), U32(258, 772),
             U32(32767, 65535), U32(32768, 0), U32(65535, 65535)}

\* u32::to_be_bytes: most significant byte first
to_be_bytes(id) == <<id[1] \div 256, id[1] % 256, id[2] \div 256, id[2] % 256>>
\* u32::from_be_bytes([b0, b1, b2, b3])
from_be_bytes(b) == U32(b[1] * 256 + b[2], b[3] * 256 + b[4])

SeqsUpTo(S, n) == UNION {[1..k -> S] : k \in 0..n}

(***************************************************************************)
(* payload.rs                                                              *)
(***************************************************************************)
MAGIC_BYTE == 0
PAYLOAD_OFFSET == 5

\* faulty variants of extract_id_and_payload: the length test off by one; the magic byte tested first
extract_len_off_by_one(data) ==
    IF data = None THEN Err("EmptyData")
    ELSE LET d == data[2] IN
         IF Len(d) <= 5 THEN Err("InvalidDataLength")
         ELSE IF d[1] # MAGIC_BYTE THEN Err("InvalidMagicByte")
         ELSE Ok([schema_id |-> from_be_bytes(SubSeq(d, 2, 5)),
                  payload |-> SubSeq(d, PAYLOAD_OFFSET + 1, Len(d))])

extract_magic_first(data) ==
    IF data = None THEN Err("EmptyData")
    ELSE LET d == data[2] IN
         IF Len(d) > 0 /\ d[1] # MAGIC_BYTE THEN Err("InvalidMagicByte")
         ELSE IF Len(d) < 5 THEN Err("InvalidDataLength")
         ELSE Ok([schema_id |-> from_be_bytes(SubSeq(d, 2, 5)),
                  payload |-> SubSeq(d, PAYLOAD_OFFSET + 1, Len(d))])

\* pub fn extract_id_and_payload(data: Option<&[u8]>) -> Result<Extracted, ExtractError>
\* (sequences are 1-based: data[0] is d[1], data[1..5] is SubSeq(d, 2, 5))
extract_id_and_payload(data) ==
    IF data = None THEN Err("EmptyData")
    ELSE LET d == data[2] IN
         IF Len(d) < 5 THEN Err("InvalidDataLength")
         ELSE IF d[1] # MAGIC_BYTE THEN Err("InvalidMagicByte")
         ELSE Ok([schema_id |-> from_be_bytes(SubSeq(d, 2, 5)),
                  payload |-> SubSeq(d, PAYLOAD_OFFSET + 1, Len(d))])

\* faulty variants of insert_magic_byte_and_id: the id little-endian; the magic byte after the id
insert_little_endian(id, payload) ==
    LET b == to_be_bytes(id) IN <<MAGIC_BYTE, b[4], b[3], b[2], b[1]>> \o payload

insert_no_magic(id, payload) == to_be_bytes(id) \o <<MAGIC_BYTE>> \o payload

\* pub fn insert_magic_byte_and_id(id: u32, payload: &[u8]) -> Vec<u8>
insert_magic_byte_and_id(id, payload) ==
    <<MAGIC_BYTE>> \o to_be_bytes(id) \o payload

(***************************************************************************)
(* The framing harness: a caller receives an arbitrary buffer (the initial *)
(* states range over them) or frames a payload, and runs                   *)
(* extract_id_and_payload on the buffer.                                   *)
(***************************************************************************)
RawInputs == {None} \cup {Some(s) : s \in SeqsUpTo(ByteSample, MaxData)}

Frame ==
    /\ extracted # NotRun
    /\ \E id \in IdSample, p \in SeqsUpTo(PayloadSample, MaxPayload) :
        /\ wire' = Some(insert_magic_byte_and_id(id, p))
        /\ origin' = "framed"
        /\ fr_id' = id
        /\ fr_payload' = p
        /\ extracted' = NotRun
    /\ UNCHANGED notFr

Extract ==
    /\ extracted = NotRun
    /\ extracted' = extract_id_and_payload(wire)
    /\ UNCHANGED <<wire, origin, fr_id, fr_payload>>
    /\ UNCHANGED notFr

(***************************************************************************)
(* types.rs                                                                *)
(***************************************************************************)
\* pub enum Version { Latest, Version(u32) }
Latest == <<"Latest">>
Version(n) == <<"Version", n>>

\* pub struct Schema { schema_type, schema }
Schema(schema_type, schema) == [schema_type |-> schema_type, schema |-> schema]

\* pub struct UnregisteredSchema { schema, schema_type, references }; the client
\* only serialises references into the request body and never reads them
UnregisteredSchema(schema_type, schema) == [schema_type |-> schema_type, schema |-> schema]
NoUnregistered == [schema_type |-> "", schema |-> ""]

\* pub struct Subject { id, subject, version, schema_type, schema }
Subject(id, subject, version, schema_type, schema) ==
    [id |-> id, subject |-> subject, version |-> version,
     schema_type |-> schema_type, schema |-> schema]
NoSubject == [id |-> 0, subject |-> "", version |-> 0, schema_type |-> "", schema |-> ""]

(***************************************************************************)
(* The Schema Registry the client talks to: an HTTP service with fixed     *)
(* content, every replica url serving the same content.  It stores each    *)
(* schema under a stable id in the text form it normalises sources to, so  *)
(* a POST of a differently formatted source of a stored schema is answered *)
(* with the stored schema's id.                                            *)
(***************************************************************************)
\* the registry's normal form of a schema source ("r1 " is "r1" formatted otherwise)
Canon(text) == CASE text = "r1 " -> "r1" [] text = "r2 " -> "r2" [] OTHER -> text

\* the ids the registry has assigned, and the ids callers ask for (3 is unknown to it)
RegistryIds == {1, 2}
IdArgs == {1, 2, 3}

\* GET /schemas/ids/{id}?deleted=true, the 2xx body parsed as Schema
RegistrySchema(id) == IF id = 1 THEN Schema("Avro", "r1") ELSE Schema("Avro", "r2")

\* subject "s" has version 1 (schema id 1) and version 2 (schema id 2, the latest);
\* "al" is an alias the registry resolves to "s"
SubjectArgs == {"s", "al"}
VersionArgs == {Latest, Version(1), Version(2)}
SubjectNames == {"s", "al"}

\* GET /subjects/{subject}/versions/{version}, the 2xx body parsed as Subject
RegistrySubject(subject, version) ==
    LET n == IF version = Latest THEN 2 ELSE version[2]
        s == RegistrySchema(n)
    IN Subject(n, "s", n, s.schema_type, s.schema)

\* the sources callers register
UnregisteredArgs == {UnregisteredSchema("Avro", "r1"), UnregisteredSchema("Avro", "r1 "),
                     UnregisteredSchema("Avro", "r2 "), UnregisteredSchema("Json", "r1")}

\* POST /subjects/{subject}/versions: the ids of the stored schemas the submitted
\* one is a source of (none: the registry rejects the request)
RegistryRegister(subject, unregistered) ==
    {i \in RegistryIds :
        RegistrySchema(i) = Schema(unregistered.schema_type, Canon(unregistered.schema))}

(***************************************************************************)
(* cached.rs: CachedSchemaRegistryClient                                   *)
(***************************************************************************)
\* conf.urls in configuration order, the replicas every operation races
UrlList == <<"u1", "u2">>
Urls == {UrlList[k] : k \in 1..Len(UrlList)}
\* the concurrent callers sharing the client
Tasks == {"t1", "t2"}

\* pub async fn check_id_cache(&self, id: u32) -> Option<Schema>
check_id_cache(id) == id_cache[id]

\* pub async fn check_subject_cache(&self, subject: &str) -> Option<u32>
check_subject_cache(subject) == subject_cache[subject]

\* faulty variant of insert_id_cache: a cache of one entry, the insert evicts
\* every other id
insert_id_cache_evicting(cache, id, schema) ==
    [i \in DOMAIN cache |-> IF i = id THEN Some(schema) ELSE None]

\* pub async fn insert_id_cache(&self, id: u32, schema: Schema)
insert_id_cache(cache, id, schema) == [cache EXCEPT ![id] = Some(schema)]

\* a call slot: no call in progress
Idle ==
    [pc |-> "idle", op |-> "none", id |-> 0, subject |-> "", version |-> None,
     unreg |-> NoUnregistered, racing |-> "none", reqs |-> [u \in Urls |-> "none"],
     last_err |-> "none", order |-> <<>>, nreq |-> 0, resp |-> NoSubject,
     result |-> NotRun]

\* the call's future resolves with `result`; reqs and order keep how its race went
Returned(rec, result) ==
    [rec EXCEPT !.pc = "done", !.racing = "none",
                !.last_err = "none", !.resp = NoSubject, !.result = result]

\* self.urls.iter().map(|url| ...).collect(), then exec_http_calls(calls):
\* one request per url, all in flight
StartRace(rec, kind) ==
    [rec EXCEPT !.pc = "racing", !.racing = kind, !.reqs = [u \in Urls |-> "pending"],
                !.nreq = rec.nreq + Cardinality(Urls)]

\* a faulty variant of get_schema_by_id_begin: the cache is not consulted
by_id_skips_cache(rec, id) == StartRace([rec EXCEPT !.id = id], "id")

\* a faulty variant of get_schema_by_id_begin: single-flight, a miss while
\* another caller's request for the same id is in flight sends nothing
by_id_single_flight(rec, id) ==
    IF check_id_cache(id) # None
    THEN Returned([rec EXCEPT !.id = id], Ok(check_id_cache(id)[2]))
    ELSE IF \E r \in Tasks : task[r].pc = "racing" /\ task[r].racing = "id" /\ task[r].id = id
         THEN Returned([rec EXCEPT !.id = id], Err("in flight"))
         ELSE StartRace([rec EXCEPT !.id = id], "id")

\* get_schema_by_id up to its first suspension: the cached schema, or the race
get_schema_by_id_begin(rec, id) ==
    IF check_id_cache(id) # None
    THEN Returned([rec EXCEPT !.id = id], Ok(check_id_cache(id)[2]))
    ELSE StartRace([rec EXCEPT !.id = id], "id")

\* async fn get_schema_by_id(&self, id: u32)
CallById(t) ==
    /\ task[t].pc = "idle"
    /\ \E id \in IdArgs :
        task' = [task EXCEPT ![t] =
                    get_schema_by_id_begin([Idle EXCEPT !.op = "get_schema_by_id"], id)]
    /\ UNCHANGED <<id_cache, subject_cache>>

\* get_schema_by_subject up to its first suspension: a subject cache hit delegates
\* to get_schema_by_id, a miss starts the race
get_schema_by_subject_begin(rec) ==
    IF check_subject_cache(rec.subject) # None
    THEN get_schema_by_id_begin(rec, check_subject_cache(rec.subject)[2])
    ELSE StartRace(rec, "subject")

\* async fn get_schema_by_subject(&self, subject: &str, version: Version)
CallBySubject(t) ==
    /\ task[t].pc = "idle"
    /\ \E s \in SubjectArgs, v \in VersionArgs :
        task' = [task EXCEPT ![t] =
                    get_schema_by_subject_begin(
                        [Idle EXCEPT !.op = "get_schema_by_subject",
                                     !.subject = s, !.version = v])]
    /\ UNCHANGED <<id_cache, subject_cache>>

\* async fn register_schema(&self, subject: &str, unregistered: &UnregisteredSchema)
CallRegister(t) ==
    /\ task[t].pc = "idle"
    /\ \E s \in SubjectArgs, u \in UnregisteredArgs :
        task' = [task EXCEPT ![t] =
                    StartRace([Idle EXCEPT !.op = "register_schema",
                                           !.subject = s, !.unreg = u], "register")]
    /\ UNCHANGED <<id_cache, subject_cache>>

\* whether the registry answers the call's request with a 2xx body that parses
Served(rec) ==
    CASE rec.racing = "id" -> rec.id \in RegistryIds
      [] rec.racing = "subject" -> TRUE
      [] rec.racing = "register" -> RegistryRegister(rec.subject, rec.unreg) # {}
      [] OTHER -> FALSE

\* faulty variants of ReplicaFail: the first failure ends the call; the error of
\* the request that failed first is returned
ReplicaFail_first_failure_ends(t, u) ==
    /\ task[t].pc = "racing"
    /\ task[t].reqs[u] = "pending"
    /\ task' = [task EXCEPT ![t] =
                  Returned([task[t] EXCEPT !.reqs[u] = "failed",
                                           !.order = Append(task[t].order, u)], Err(u))]
    /\ UNCHANGED <<id_cache, subject_cache>>

ReplicaFail_reports_first(t, u) ==
    /\ task[t].pc = "racing"
    /\ task[t].reqs[u] = "pending"
    /\ LET reqs == [task[t].reqs EXCEPT ![u] = "failed"]
           rec == [task[t] EXCEPT !.reqs = reqs, !.order = Append(task[t].order, u)]
       IN task' = [task EXCEPT ![t] =
                    IF \E w \in Urls : reqs[w] = "pending"
                    THEN [rec EXCEPT !.last_err = u]
                    ELSE Returned(rec, Err(rec.order[1]))]
    /\ UNCHANGED <<id_cache, subject_cache>>

\* faulty variant of ReplicaFail: a call that fails leaves a placeholder in
\* idCache under the id it asked for
ReplicaFail_caches_failure(t, u) ==
    /\ task[t].pc = "racing"
    /\ task[t].reqs[u] = "pending"
    /\ LET reqs == [task[t].reqs EXCEPT ![u] = "failed"]
           rec == [task[t] EXCEPT !.reqs = reqs, !.order = Append(task[t].order, u)]
           last == \A w \in Urls : reqs[w] # "pending"
       IN /\ task' = [task EXCEPT ![t] =
                        IF last THEN Returned(rec, Err(u)) ELSE [rec EXCEPT !.last_err = u]]
          /\ id_cache' = IF last /\ rec.racing = "id"
                         THEN [id_cache EXCEPT ![rec.id] = Some(Schema("Avro", ""))]
                         ELSE id_cache
    /\ UNCHANGED subject_cache

\* one replica's request fails (transport error, non-2xx status, unparsable body);
\* select_ok drops it, and returns its error when no request is left
ReplicaFail(t, u) ==
    /\ task[t].pc = "racing"
    /\ task[t].reqs[u] = "pending"
    /\ LET reqs == [task[t].reqs EXCEPT ![u] = "failed"]
           rec == [task[t] EXCEPT !.reqs = reqs, !.order = Append(task[t].order, u)]
       IN task' = [task EXCEPT ![t] =
                    IF \E w \in Urls : reqs[w] = "pending"
                    THEN [rec EXCEPT !.last_err = u]
                    ELSE Returned(rec, Err(u))]
    /\ UNCHANGED <<id_cache, subject_cache>>

\* a faulty variant of register_subject_cache: register_schema fills the subject cache
register_fills_subject_cache(rec, id) ==
    [subject_cache EXCEPT ![rec.subject] = Some(id)]

\* what register_schema does to the subject cache: nothing
register_subject_cache(rec, id) == subject_cache

\* select_ok resolves with the Ok of url u, and exec_http_calls drops the rest:
\* remaining.into_iter().for_each(drop)
Won(rec, u) ==
    [rec EXCEPT !.reqs = [w \in Urls |->
                            IF w = u THEN "ok"
                            ELSE IF rec.reqs[w] = "pending" THEN "dropped"
                            ELSE rec.reqs[w]],
                !.order = Append(rec.order, u)]

\* a faulty variant of insert_subject_cache_entry: keyed by the caller's subject argument
subject_cache_keyed_by_argument(rec) ==
    [subject_cache EXCEPT ![rec.subject] = Some(rec.resp.id)]

\* insert_subject_cache, second insert:
\* self.subject_cache.insert(subject.subject.clone(), subject.id)
insert_subject_cache_entry(rec) ==
    [subject_cache EXCEPT ![rec.resp.subject] = Some(rec.resp.id)]

\* faulty variant of insert_subject_cache_step: the two inserts in the other
\* order, the subject cache first and the id cache second
insert_subject_cache_subject_first(n, rec) ==
    IF n = 1
    THEN <<id_cache, insert_subject_cache_entry(rec)>>
    ELSE <<insert_id_cache(id_cache, rec.resp.id,
                           Schema(rec.resp.schema_type, rec.resp.schema)),
           subject_cache>>

\* async fn insert_subject_cache(&self, subject: &Subject): the caches after its
\* n-th insert, first self.insert_id_cache(subject.id, Schema {..}).await, then
\* self.subject_cache.insert(subject.subject.clone(), subject.id)
insert_subject_cache_step(n, rec) ==
    IF n = 1
    THEN <<insert_id_cache(id_cache, rec.resp.id,
                           Schema(rec.resp.schema_type, rec.resp.schema)),
           subject_cache>>
    ELSE <<id_cache, insert_subject_cache_entry(rec)>>

\* one replica answers 2xx first: select_ok resolves, the other requests are
\* dropped, and the call runs on to its next cache write
ReplicaOk(t, u) ==
    /\ task[t].pc = "racing"
    /\ task[t].reqs[u] = "pending"
    /\ Served(task[t])
    /\ LET rec == Won(task[t], u) IN
        CASE rec.racing = "id" ->
                \* let schema = exec_http_calls(calls).await?;
                \* self.insert_id_cache(id, schema.clone()).await; Ok(schema)
                /\ id_cache' = insert_id_cache(id_cache, rec.id, RegistrySchema(rec.id))
                /\ task' = [task EXCEPT ![t] = Returned(rec, Ok(RegistrySchema(rec.id)))]
                /\ UNCHANGED subject_cache
          [] rec.racing = "subject" ->
                \* let subject = exec_http_calls(calls).await?;
                \* insert_subject_cache: first self.insert_id_cache(subject.id, Schema {..})
                LET subject == RegistrySubject(rec.subject, rec.version)
                    next == [rec EXCEPT !.pc = "inserting", !.racing = "none",
                                        !.last_err = "none", !.resp = subject]
                IN /\ id_cache' = insert_subject_cache_step(1, next)[1]
                   /\ subject_cache' = insert_subject_cache_step(1, next)[2]
                   /\ task' = [task EXCEPT ![t] = next]
          [] rec.racing = "register" ->
                \* let registered_schema = exec_http_calls(calls).await?;
                \* self.insert_id_cache(registered_schema.id, schema.clone()).await; Ok(schema)
                \E id \in RegistryRegister(rec.subject, rec.unreg) :
                    LET schema == Schema(rec.unreg.schema_type, rec.unreg.schema) IN
                    /\ id_cache' = insert_id_cache(id_cache, id, schema)
                    /\ subject_cache' = register_subject_cache(rec, id)
                    /\ task' = [task EXCEPT ![t] =
                                   Returned([rec EXCEPT !.id = id], Ok(schema))]

\* get_schema_by_subject after the race: the second insert of insert_subject_cache,
\* then Ok(Schema { schema_type: subject.schema_type, schema: subject.schema })
FinishSubject(t) ==
    /\ task[t].pc = "inserting"
    /\ id_cache' = insert_subject_cache_step(2, task[t])[1]
    /\ subject_cache' = insert_subject_cache_step(2, task[t])[2]
    /\ task' = [task EXCEPT ![t] =
                   Returned(task[t], Ok(Schema(task[t].resp.schema_type,
                                               task[t].resp.schema)))]

\* faulty variant of Cancel: the call can also be dropped between the two
\* inserts of insert_subject_cache
Cancel_between_inserts(t) ==
    /\ task[t].pc \in {"racing", "inserting"}
    /\ task' = [task EXCEPT ![t] = Idle]
    /\ UNCHANGED <<id_cache, subject_cache>>

\* the caller drops the call's future at its suspension point, the await of
\* exec_http_calls: the requests in flight are dropped with it, nothing else runs
Cancel(t) ==
    /\ task[t].pc = "racing"
    /\ task' = [task EXCEPT ![t] = Idle]
    /\ UNCHANGED <<id_cache, subject_cache>>

\* the caller takes the result; the slot is free for its next call
Ack(t) ==
    /\ task[t].pc = "done"
    /\ task' = [task EXCEPT ![t] = Idle]
    /\ UNCHANGED <<id_cache, subject_cache>>

\* from_url / from_conf: both caches start empty
ClInit ==
    /\ id_cache = [i \in IdArgs |-> None]
    /\ subject_cache = [s \in SubjectNames |-> None]
    /\ task = [t \in Tasks |-> Idle]

(***************************************************************************)
(* parse_response (cached.rs): one replica's HTTP response turned into the *)
(* Result of its request.  Bodies are byte sequences, Strings are          *)
(* sequences of code points.                                               *)
(***************************************************************************)
\* the bytes of {"id":1}, of {"schema":"r1"}, of { and an invalid UTF-8 byte
JsonIdBody == <<123, 34, 105, 100, 34, 58, 49, 125>>
JsonSchemaBody == <<123, 34, 115, 99, 104, 101, 109, 97, 34, 58, 34, 114, 49, 34, 125>>
BodySample == {<<>>, <<123>>, <<255>>, <<123, 255, 125>>, JsonIdBody, JsonSchemaBody}

\* status codes on both sides of each edge of 200..=299
StatusSample == {100, 199, 200, 204, 299, 300, 404, 500}

\* T of parse_response::<T>, named as std::any::type_name::<T>() names it
TargetSample == {"Schema", "RegisteredSchema"}

\* whether response.bytes() delivers the body or the connection fails first
ReadSample == {"ok", "reset"}

ResponseInputs ==
    [status : StatusSample, url : Urls, read : ReadSample, bytes : BodySample,
     target : TargetSample]
NoResponse == [status |-> 0, url |-> "", read |-> "", bytes |-> <<>>, target |-> ""]

\* serde_json::from_slice::<T>(&bytes) on the sample bodies: a Schema needs the
\* field schema (schemaType defaults to Avro), a RegisteredSchema the field id
from_slice(target, bytes) ==
    IF target = "Schema" /\ bytes = JsonSchemaBody THEN Ok(Schema("Avro", "r1"))
    ELSE IF target = "RegisteredSchema" /\ bytes = JsonIdBody THEN Ok([id |-> 1])
    ELSE Err("serde_json::Error")

\* String::from_utf8_lossy on bytes that are ASCII or 0xFF: an ASCII byte is its
\* code point, each 0xFF becomes U+FFFD
from_utf8_lossy(bytes) ==
    [k \in 1..Len(bytes) |-> IF bytes[k] < 128 THEN bytes[k] ELSE 65533]

\* String::as_bytes: the UTF-8 encoding of a String of ASCII and U+FFFD
RECURSIVE as_bytes(_)
as_bytes(text) ==
    IF text = <<>> THEN <<>>
    ELSE (IF Head(text) < 128 THEN <<Head(text)>> ELSE <<239, 191, 189>>)
            \o as_bytes(Tail(text))

\* faulty variant of parse_response: the body is decoded whatever the status
parse_response_decodes_first(r) ==
    IF r.read # "ok" THEN Err([kind |-> "Generic"])
    ELSE IF IsOk(from_slice(r.target, r.bytes)) THEN from_slice(r.target, r.bytes)
    ELSE IF r.status >= 200 /\ r.status <= 299
         THEN Err([kind |-> "JsonParse", body |-> from_utf8_lossy(r.bytes),
                   target |-> r.target])
         ELSE Err([kind |-> "UpstreamError", url |-> r.url, status |-> r.status,
                   body |-> from_utf8_lossy(r.bytes)])

\* async fn parse_response<T: DeserializeOwned>(response: reqwest::Response)
parse_response(r) ==
    IF r.read # "ok" THEN Err([kind |-> "Generic"])
    ELSE IF r.status >= 200 /\ r.status <= 299
         THEN IF IsOk(from_slice(r.target, r.bytes))
              THEN from_slice(r.target, r.bytes)
              ELSE Err([kind |-> "JsonParse", body |-> from_utf8_lossy(r.bytes),
                        target |-> r.target])
         ELSE Err([kind |-> "UpstreamError", url |-> r.url, status |-> r.status,
                   body |-> from_utf8_lossy(r.bytes)])

ParseResponse ==
    /\ parsed = NotRun
    /\ parsed' = parse_response(response)
    /\ UNCHANGED <<response, notPr>>

(***************************************************************************)
(* SchemaRegistryConfig (config.rs) and the construction of a client from  *)
(* it (cached.rs from_conf, util.rs build_http_client).  Credentials and   *)
(* header values are Strings, modelled as sequences of ASCII code points;  *)
(* header names are looked up in a table.                                  *)
(***************************************************************************)
\* the longest url list the builder is driven to
MaxUrls == 2

\* SchemaRegistryConfig::new(): Default
SchemaRegistryConfig_new ==
    [urls |-> <<>>, authentication |-> None, proxy |-> None, headers |-> None]

\* "alice", "u", "s3cret", "pw", "tok", "t\nk" (a newline inside), "prod", "p\n"
StrAlice == <<97, 108, 105, 99, 101>>
StrU == <<117>>
StrS3cret == <<115, 51, 99, 114, 101, 116>>
StrPw == <<112, 119>>
StrTok == <<116, 111, 107>>
StrBadTok == <<116, 10, 107>>
StrProd == <<112, 114, 111, 100>>
StrBadValue == <<112, 10>>

\* builder arguments; "bad name" and "::not a url" are the header name and the
\* proxy that reqwest rejects
UsernameArgs == {None, Some(StrAlice), Some(StrU)}
PasswordArgs == {None, Some(StrS3cret), Some(StrPw)}
TokenArgs == {None, Some(StrTok), Some(StrBadTok)}
ProxyArgs == {None, Some("http://proxy:8080"), Some("::not a url")}
HeadersArgs ==
    {{}, {<<"x-env", StrProd>>}, {<<"bad name", StrProd>>}, {<<"x-env", StrBadValue>>},
     {<<"bad name", StrBadValue>>}, {<<"Authorization", StrProd>>}}

\* HeaderName::from_str on the sample names: None for a name that is no token,
\* else the name in lower case
header_name_from_str(name) ==
    IF name = "bad name" THEN None
    ELSE IF name = "Authorization" THEN Some("authorization")
    ELSE Some(name)

\* HeaderValue::from_str accepts visible ASCII and tab; HeaderValue::from_bytes
\* accepts every byte from 32 up except 127, and tab
header_value_from_str_ok(value) ==
    \A k \in 1..Len(value) : (value[k] >= 32 /\ value[k] < 127) \/ value[k] = 9
header_value_from_bytes_ok(value) ==
    \A k \in 1..Len(value) : (value[k] >= 32 /\ value[k] # 127) \/ value[k] = 9

\* Proxy::all on the sample proxies
proxy_ok(proxy) == proxy # "::not a url"

\* a HeaderValue and its sensitive flag
HeaderValue(value, sensitive) == [value |-> value, sensitive |-> sensitive]

\* HeaderMap::insert: the value replaces every value held under the name
header_map_insert(map, name, value) ==
    {e \in map : e[1] # name} \cup {<<name, value>>}

\* pub fn url(mut self, url)
ConfUrl ==
    /\ built = NotRun
    /\ Len(conf.urls) < MaxUrls
    /\ \E u \in Urls :
          /\ conf' = [conf EXCEPT !.urls = Append(conf.urls, u)]
          /\ call' = <<"url", u>>
    /\ UNCHANGED <<built, raced>>

\* faulty variant of basic_auth_conf: a call without a username clears the authentication
basic_auth_conf_none_clears(c, username, password) ==
    IF username = None THEN [c EXCEPT !.authentication = None]
    ELSE [c EXCEPT !.authentication =
            Some([kind |-> "Basic", username |-> username[2], password |-> password])]

\* pub fn basic_auth(mut self, username, password): no username, no change
basic_auth_conf(c, username, password) ==
    IF username = None THEN c
    ELSE [c EXCEPT !.authentication =
            Some([kind |-> "Basic", username |-> username[2], password |-> password])]

ConfBasicAuth ==
    /\ built = NotRun
    /\ \E username \in UsernameArgs, password \in PasswordArgs :
          /\ conf' = basic_auth_conf(conf, username, password)
          /\ call' = <<"basic_auth", username, password>>
    /\ UNCHANGED <<built, raced>>

\* faulty variant of bearer_auth_conf: an authentication already configured is kept
bearer_auth_conf_keeps_prior(c, token) ==
    IF token = None \/ c.authentication # None THEN c
    ELSE [c EXCEPT !.authentication = Some([kind |-> "Bearer", token |-> token[2]])]

\* pub fn bearer_auth(mut self, token): no token, no change
bearer_auth_conf(c, token) ==
    IF token = None THEN c
    ELSE [c EXCEPT !.authentication = Some([kind |-> "Bearer", token |-> token[2]])]

ConfBearerAuth ==
    /\ built = NotRun
    /\ \E token \in TokenArgs :
          /\ conf' = bearer_auth_conf(conf, token)
          /\ call' = <<"bearer_auth", token>>
    /\ UNCHANGED <<built, raced>>

\* pub fn proxy(mut self, proxy)
ConfProxy ==
    /\ built = NotRun
    /\ \E proxy \in ProxyArgs :
          /\ conf' = [conf EXCEPT !.proxy = proxy]
          /\ call' = <<"proxy", proxy>>
    /\ UNCHANGED <<built, raced>>

\* pub fn headers(mut self, headers)
ConfHeaders ==
    /\ built = NotRun
    /\ \E headers \in HeadersArgs :
          /\ conf' = [conf EXCEPT !.headers = Some(headers)]
          /\ call' = <<"headers", headers>>
    /\ UNCHANGED <<built, raced>>

\* pub fn build_headers(headers): the name of an entry is parsed before its
\* value; the sample maps hold at most one entry
build_headers(headers) ==
    IF \E h \in headers : header_name_from_str(h[1]) = None
    THEN Err("InvalidHeaderName")
    ELSE IF \E h \in headers : ~header_value_from_str_ok(h[2])
    THEN Err("InvalidHeaderValue")
    ELSE Ok({<<header_name_from_str(h[1])[2], HeaderValue(h[2], FALSE)>> : h \in headers})

\* base64::prelude::BASE64_STANDARD: the alphabet A-Z a-z 0-9 + /, padded with =
b64_char(n) ==
    IF n < 26 THEN 65 + n
    ELSE IF n < 52 THEN 97 + (n - 26)
    ELSE IF n < 62 THEN 48 + (n - 52)
    ELSE IF n = 62 THEN 43 ELSE 47

RECURSIVE base64_encode(_)
base64_encode(bytes) ==
    IF Len(bytes) = 0 THEN <<>>
    ELSE IF Len(bytes) = 1
    THEN <<b64_char(bytes[1] \div 4), b64_char((bytes[1] % 4) * 16), 61, 61>>
    ELSE IF Len(bytes) = 2
    THEN <<b64_char(bytes[1] \div 4),
           b64_char((bytes[1] % 4) * 16 + bytes[2] \div 16),
           b64_char((bytes[2] % 16) * 4), 61>>
    ELSE <<b64_char(bytes[1] \div 4),
           b64_char((bytes[1] % 4) * 16 + bytes[2] \div 16),
           b64_char((bytes[2] % 16) * 4 + bytes[3] \div 64),
           b64_char(bytes[3] % 64)>>
         \o base64_encode(SubSeq(bytes, 4, Len(bytes)))

\* pub fn bearer_auth(token): "Bearer {token}", marked sensitive
bearer_auth(token) ==
    LET value == <<66, 101, 97, 114, 101, 114, 32>> \o token
    IN IF header_value_from_str_ok(value)
       THEN Ok(<<"authorization", HeaderValue(value, TRUE)>>)
       ELSE Err("InvalidHeaderValue")

\* pub fn basic_auth(username, password): "Basic " then the base64 of
\* "{username}:" and of the password when there is one, marked sensitive
basic_auth(username, password) ==
    LET plain == username \o <<58>> \o (IF password = None THEN <<>> ELSE password[2])
        value == <<66, 97, 115, 105, 99, 32>> \o base64_encode(plain)
    IN IF header_value_from_bytes_ok(value)
       THEN Ok(<<"authorization", HeaderValue(value, TRUE)>>)
       ELSE Err("InvalidHeaderValue")

\* pub fn build_auth_headers(auth)
build_auth_headers(auth) ==
    IF auth.kind = "Bearer" THEN bearer_auth(auth.token)
    ELSE basic_auth(auth.username, auth.password)

\* faulty variant of build_http_client: the authentication header is appended
\* to the headers of the config instead of replacing them
build_http_client_appends_auth(c) ==
    LET hdrs == IF c.headers = None THEN Ok({}) ELSE build_headers(c.headers[2])
        auth == IF c.authentication = None THEN Ok(<<>>)
                ELSE build_auth_headers(c.authentication[2])
    IN IF IsErr(hdrs) THEN hdrs
       ELSE IF IsErr(auth) THEN auth
       ELSE IF c.proxy # None /\ ~proxy_ok(c.proxy[2]) THEN Err("Proxy")
       ELSE Ok([default_headers |->
                    IF c.authentication = None THEN hdrs[2]
                    ELSE hdrs[2] \cup {auth[2]},
                proxy |-> c.proxy])

\* pub fn build_http_client(conf): headers, then authentication, then proxy
build_http_client(c) ==
    LET hdrs == IF c.headers = None THEN Ok({}) ELSE build_headers(c.headers[2])
        auth == IF c.authentication = None THEN Ok(<<>>)
                ELSE build_auth_headers(c.authentication[2])
    IN IF IsErr(hdrs) THEN hdrs
       ELSE IF IsErr(auth) THEN auth
       ELSE IF c.proxy # None /\ ~proxy_ok(c.proxy[2]) THEN Err("Proxy")
       ELSE Ok([default_headers |->
                    IF c.authentication = None THEN hdrs[2]
                    ELSE header_map_insert(hdrs[2], auth[2][1], auth[2][2]),
                proxy |-> c.proxy])

\* pub fn from_conf(conf: SchemaRegistryConfig)
from_conf(c) ==
    LET http == build_http_client(c)
    IN IF IsErr(http) THEN http
       ELSE Ok([http |-> http[2], urls |-> c.urls])

FromConf ==
    /\ built = NotRun
    /\ built' = from_conf(conf)
    /\ call' = <<"from_conf">>
    /\ UNCHANGED <<conf, raced>>

\* the three operations and the headers each sets on its requests
Ops == {"get_schema_by_id", "get_schema_by_subject", "register_schema"}
request_own_headers(op) ==
    IF op = "register_schema" THEN {"accept", "content-type"} ELSE {"accept"}

\* reqwest's RequestBuilder::send: the client's default headers are added to
\* the request under every name the request has not set itself
request(client, op, url) ==
    [url |-> url, op |-> op,
     headers |-> {<<n, HeaderValue(<<>>, FALSE)>> : n \in request_own_headers(op)}
                 \cup {e \in client.http.default_headers :
                          e[1] \notin request_own_headers(op)}]

\* exec_http_calls on the calls of an operation: select_ok panics on an empty
\* list ("iterator provided to select_ok was empty")
exec_http_calls_start(calls) ==
    IF Len(calls) = 0 THEN <<"Panic">> ELSE <<"Raced", calls>>

\* the first cache-missing operation on the client that was built: one call
\* per url of the client
FirstCall ==
    /\ IsOk(built)
    /\ raced = NotRun
    /\ \E op \in Ops :
          raced' = exec_http_calls_start(
                      [k \in 1..Len(built[2].urls) |-> request(built[2], op, built[2].urls[k])])
    /\ call' = <<"first_call">>
    /\ UNCHANGED <<conf, built>>

(***************************************************************************)
(* SubjectNameStrategy (schema-registry-serde/src/lib.rs).  Names and      *)
(* subjects are Strings, modelled as sequences of ASCII code points.       *)
(***************************************************************************)
\* "", "t", "T", "a.b", "x-key", " t"
NameSample ==
    {<<>>, <<116>>, <<84>>, <<97, 46, 98>>, <<120, 45, 107, 101, 121>>, <<32, 116>>}

\* pub enum SubjectNameStrategy
TopicName(topic) == <<"TopicName", topic>>
RecordName(record) == <<"RecordName", record>>
TopicRecordName(topic, record) == <<"TopicRecordName", topic, record>>
SubjectName(subject) == <<"SubjectName", subject>>

StrategyInputs ==
    {TopicName(n) : n \in NameSample} \cup {RecordName(n) : n \in NameSample}
        \cup {TopicRecordName(t, r) : t \in NameSample, r \in NameSample}
        \cup {SubjectName(n) : n \in NameSample}

\* faulty variant of key: the record name comes before the topic
key_record_first(strategy) ==
    CASE strategy[1] = "TopicName" -> strategy[2] \o <<45, 107, 101, 121>>
      [] strategy[1] = "RecordName" -> strategy[2] \o <<45, 107, 101, 121>>
      [] strategy[1] = "TopicRecordName" ->
            strategy[3] \o <<45>> \o strategy[2] \o <<45, 107, 101, 121>>
      [] strategy[1] = "SubjectName" -> strategy[2]

\* pub fn key(&self) -> String: format!("{}-key", ..), format!("{}-{}-key", ..)
key(strategy) ==
    CASE strategy[1] = "TopicName" -> strategy[2] \o <<45, 107, 101, 121>>
      [] strategy[1] = "RecordName" -> strategy[2] \o <<45, 107, 101, 121>>
      [] strategy[1] = "TopicRecordName" ->
            strategy[2] \o <<45>> \o strategy[3] \o <<45, 107, 101, 121>>
      [] strategy[1] = "SubjectName" -> strategy[2]

\* pub fn value(&self) -> String: format!("{}-value", ..), format!("{}-{}-value", ..)
value(strategy) ==
    CASE strategy[1] = "TopicName" -> strategy[2] \o <<45, 118, 97, 108, 117, 101>>
      [] strategy[1] = "RecordName" -> strategy[2] \o <<45, 118, 97, 108, 117, 101>>
      [] strategy[1] = "TopicRecordName" ->
            strategy[2] \o <<45>> \o strategy[3] \o <<45, 118, 97, 108, 117, 101>>
      [] strategy[1] = "SubjectName" -> strategy[2]

StrategyKey ==
    /\ ret = NotRun
    /\ ret' = <<"key", key(arg)>>
    /\ UNCHANGED arg

StrategyValue ==
    /\ ret = NotRun
    /\ ret' = <<"value", value(arg)>>
    /\ UNCHANGED arg

(***************************************************************************)
(* The JSON body register_schema posts: #[derive(Serialize)] of            *)
(* UnregisteredSchema (types.rs), an object as the sequence of its fields. *)
(***************************************************************************)
\* the longest reference list of the sample schemas
MaxRefs == 2

\* pub struct SchemaReference { name, subject, version }
SchemaReference(name, subject, version) ==
    [name |-> name, subject |-> subject, version |-> version]
ReferenceSample ==
    {SchemaReference("Author", "author-value", 1), SchemaReference("Isbn", "isbn-value", 2)}

\* UnregisteredSchema with its references: None from UnregisteredSchema::schema,
\* Some(list) after .references(list)
UnregisteredInputs ==
    [schema : {"r1", "r1 ", "r2 "}, schema_type : {"Avro", "Protobuf", "Json"},
     references : {None} \cup {Some(l) : l \in SeqsUpTo(ReferenceSample, MaxRefs)}]

\* #[serde(rename_all = "SCREAMING_SNAKE_CASE")] of SchemaType
schema_type_json(schema_type) ==
    CASE schema_type = "Avro" -> "AVRO"
      [] schema_type = "Protobuf" -> "PROTOBUF"
      [] schema_type = "Json" -> "JSON"

\* #[serde(rename_all = "camelCase")] and, on references,
\* #[serde(skip_serializing_if = "Option::is_none")]
unregistered_json(u) ==
    <<<<"schema", u.schema>>, <<"schemaType", schema_type_json(u.schema_type)>>>>
        \o (IF u.references = None THEN <<>> ELSE <<<<"references", u.references[2]>>>>)

SerializeBody ==
    /\ ret = NotRun
    /\ ret' = <<"json", unregistered_json(arg)>>
    /\ UNCHANGED arg

(***************************************************************************)
(* The codecs: schema-registry-serde-avro, schema-registry-serde-json and  *)
(* the blocking ProtoDecoder.  A codec holds a registry client behind      *)
(* Arc<dyn SchemaRegistryClient>; a call is a sequence of steps, one per   *)
(* fetch it awaits.  The registry content is fixed during a call.          *)
(***************************************************************************)
\* "book", "gone", "book-value", "author-value", "address-value"
StrBook == <<98, 111, 111, 107>>
StrGone == <<103, 111, 110, 101>>
StrLateValue == <<108, 97, 116, 101, 45, 118, 97, 108, 117, 101>>
StrBookValue == <<98, 111, 111, 107, 45, 118, 97, 108, 117, 101>>
StrAuthorValue == <<97, 117, 116, 104, 111, 114, 45, 118, 97, 108, 117, 101>>
StrAddressValue == <<97, 100, 100, 114, 101, 115, 115, 45, 118, 97, 108, 117, 101>>

\* the source of a named schema: the name it defines and the names of other
\* schemas it mentions
Source(name, uses) == [name |-> name, uses |-> uses]

\* one schema version stored in the registry
Stored(id, subject, version, schema, references) ==
    [id |-> id, subject |-> subject, version |-> version, schema |-> schema,
     references |-> references]

\* the Schema the codecs receive: schema, and the id and references they read
\* (schema.id, schema.references)
SchemaOf(e) == [id |-> e.id, schema |-> e.schema, references |-> e.references]

\* the references schemas declare: to author-value version 1 and 2, to
\* address-value, to book-value itself, to a subject the registry does not have
ToAuthor == SchemaReference("Author", StrAuthorValue, 1)
ToAuthorNext == SchemaReference("Author", StrAuthorValue, 2)
ToAddress == SchemaReference("Address", StrAddressValue, 1)
ToBook == SchemaReference("Book", StrBookValue, 1)
ToGone == SchemaReference("Gone", StrGone, 1)

ListsOfTwo(S) == {<<>>} \cup {<<x>> : x \in S} \cup {<<x, y>> : x \in S, y \in S}
ListsOfOne(S) == {<<>>} \cup {<<x>> : x \in S}

\* Option<Vec<SchemaReference>> as the registry delivers it
BookReferences ==
    {None} \cup {Some(l) : l \in ListsOfTwo({ToAuthor, ToAuthorNext, ToAddress, ToBook, ToGone})}
AuthorReferences == {Some(l) : l \in ListsOfOne({ToAddress, ToBook, ToAuthor})}
AddressReferences == {None} \cup {Some(l) : l \in ListsOfOne({ToBook, ToAuthor})}

RefList(references) == IF references = None THEN <<>> ELSE references[2]
Names(references) == {RefList(references)[k].name : k \in 1..Len(RefList(references))}

\* a registry content: book-value (one version), author-value (version 1, and
\* version 2 the latest), address-value; every schema mentions the schemas it
\* declares references to
RegistryOf(rb, ra, rd) ==
    {Stored(U32(1, 2), StrBookValue, 1, Source("Book", Names(rb)), rb),
     Stored(U32(0, 3), StrAuthorValue, 1, Source("Author", Names(ra)), ra),
     Stored(U32(0, 4), StrAuthorValue, 2, Source("Author", {}), None),
     Stored(U32(0, 5), StrAddressValue, 1, Source("Address", Names(rd)), rd)}
Registries ==
    {RegistryOf(rb, ra, rd) :
        rb \in BookReferences, ra \in AuthorReferences, rd \in AddressReferences}

\* SchemaRegistryClient::get_schema_by_subject as the codec sees it
client_get_schema_by_subject(reg, subject, version) ==
    LET all == {e \in reg : e.subject = subject}
        hit == IF version = Latest
               THEN {e \in all : \A o \in all : o.version <= e.version}
               ELSE {e \in all : e.version = version[2]}
    IN IF hit = {} THEN Err("SchemaRegistry") ELSE Ok(SchemaOf(CHOOSE e \in hit : TRUE))

\* SchemaRegistryClient::get_schema_by_id as the codec sees it
client_get_schema_by_id(reg, id) ==
    LET hit == {e \in reg : e.id = id}
    IN IF hit = {} THEN Err("SchemaRegistry") ELSE Ok(SchemaOf(CHOOSE e \in hit : TRUE))

\* the ids ProtoDecoder::decode is called with: the stored schemas' and one the
\* registry does not have at first
ProtoIds == {U32(1, 2), U32(0, 3), U32(0, 4), U32(0, 5), U32(0, 9)}

\* ProtoDecoder::new: cache: HashMap::new()
EmptyCache == [i \in ProtoIds |-> None]

\* no codec call in progress; cache is the ProtoDecoder's, and before is the
\* cache as remove_errors_from_cache found it
NoJob ==
    [op |-> "none", pc |-> "idle", strategy |-> <<>>, data |-> <<>>, id |-> U32(0, 0),
     schema |-> None, schemas |-> <<>>, fetches |-> <<>>, input |-> None,
     produced |-> None, wire |-> None, stack |-> <<>>, files |-> <<>>,
     target |-> "", printed |-> {}, result |-> NotRun,
     cache |-> EmptyCache, before |-> EmptyCache]

(***************************************************************************)
(* apache_avro as the Avro codec uses it                                   *)
(***************************************************************************)
\* a value to serialize: the record type it is an instance of, and its Avro
\* binary encoding under a schema of that type
AvroValue(type, datum) == [type |-> type, datum |-> datum]
AvroValues == {AvroValue("Book", <<2, 66>>), AvroValue("Author", <<4>>)}

\* AvroSchema::parse_str: one schema on its own; it may mention only itself
parse_str(text) ==
    IF text.uses \subseteq {text.name} THEN Ok(text) ELSE Err("Avro")

\* AvroSchema::parse_list: the schemas of the list may mention each other in
\* any order; two schemas of one name, or a name no schema of the list
\* defines, is an error.  The parsed schemas come back in the order given.
parse_list(input) ==
    LET defined == {input[k].name : k \in 1..Len(input)}
    IN IF \E k, l \in 1..Len(input) : k # l /\ input[k].name = input[l].name
       THEN Err("Avro")
       ELSE IF \E k \in 1..Len(input) : ~(input[k].uses \subseteq defined)
       THEN Err("Avro")
       ELSE Ok(input)

\* apache_avro::to_avro_datum_schemata(&write_schema, schemata, avro_value)
to_avro_datum_schemata(write_schema, schemata, avro_value) ==
    IF avro_value.type = write_schema.name THEN Ok(avro_value.datum) ELSE Err("Avro")

\* apache_avro::from_avro_datum(&schema, &mut reader, None)
from_avro_datum(schema, payload) == Ok(AvroValue(schema.name, payload))

(***************************************************************************)
(* schema-registry-serde-avro: SchemaRegistryAvroSerializer::serialize_value *)
(* and SchemaRegistryAvroDeserializer::deserialize                         *)
(***************************************************************************)
\* the strategies and values callers serialize with
StrategySample ==
    {TopicName(StrBook), SubjectName(StrAuthorValue), SubjectName(StrAddressValue),
     RecordName(StrGone)}

\* what a codec records of a fetch it made through its client
Fetched(j, what) == [j EXCEPT !.fetches = Append(@, what)]
Failed(j, error) == [j EXCEPT !.pc = "done", !.result = Err(error)]

\* faulty variant of reference_fetch: the referenced subject's latest version
reference_fetch_latest(reference) == <<reference.subject, Latest>>

\* get_schema_by_subject(&reference.subject, Version::Number(reference.version))
reference_fetch(reference) == <<reference.subject, Version(reference.version)>>

\* let id = schema.id, taken from the subject's schema before the references
\* are fetched
frame_id(j) == j.id

\* serialize_value from schemas.push(schema) on: the sources go to parse_list,
\* the last parsed schema is the writer schema, the datum is framed with the id
serialize_value_finish(j) ==
    LET schemas == Append(j.schemas, j.schema[2])
        input == [k \in 1..Len(schemas) |-> schemas[k].schema]
        parsed_schemas == parse_list(input)
        handed == [j EXCEPT !.schemas = schemas, !.input = Some(input)]
    IN IF IsErr(parsed_schemas) THEN Failed(handed, "Avro")
       ELSE IF parsed_schemas[2] = <<>> THEN Failed(handed, "SchemaNotFound")
       ELSE LET write_schema == parsed_schemas[2][Len(parsed_schemas[2])]
                schemata == SubSeq(parsed_schemas[2], 1, Len(parsed_schemas[2]) - 1)
                datum == to_avro_datum_schemata(write_schema, schemata, j.data)
            IN IF IsErr(datum) THEN Failed(handed, "Avro")
               ELSE [handed EXCEPT !.pc = "done",
                        !.result = Ok(insert_magic_byte_and_id(frame_id(j), datum[2])),
                        !.produced = Some(insert_magic_byte_and_id(frame_id(j), datum[2]))]

\* a caller calls serialize_value(strategy, data)
SerializeValue ==
    /\ job.pc = "idle"
    /\ \E strategy \in StrategySample, data \in AvroValues :
        job' = [job EXCEPT !.op = "serialize_value", !.pc = "latest",
                           !.strategy = strategy, !.data = data]
    /\ UNCHANGED registry

\* get_schema_by_subject(&subject, Version::Latest).await?
SerializeValueLatest ==
    /\ job.op = "serialize_value"
    /\ job.pc = "latest"
    /\ LET subject == value(job.strategy)
           schema == client_get_schema_by_subject(registry, subject, Latest)
           j == Fetched(job, <<subject, Latest>>)
       IN job' = IF IsErr(schema) THEN Failed(j, "SchemaRegistry")
                 ELSE LET got == [j EXCEPT !.id = schema[2].id, !.schema = Some(schema[2])]
                      IN IF RefList(schema[2].references) = <<>>
                         THEN serialize_value_finish(got)
                         ELSE [got EXCEPT !.pc = "references"]
    /\ UNCHANGED registry

\* one turn of for reference in references
SerializeValueReference ==
    /\ job.op = "serialize_value"
    /\ job.pc = "references"
    /\ LET references == RefList(job.schema[2].references)
           reference == references[Len(job.schemas) + 1]
           what == reference_fetch(reference)
           reference_schema == client_get_schema_by_subject(registry, what[1], what[2])
           j == Fetched(job, what)
       IN job' = IF IsErr(reference_schema) THEN Failed(j, "SchemaRegistry")
                 ELSE LET got == [j EXCEPT !.schemas = Append(@, reference_schema[2])]
                      IN IF Len(got.schemas) = Len(references)
                         THEN serialize_value_finish(got)
                         ELSE got
    /\ UNCHANGED registry

\* faulty variant of avro_extract_id_and_payload: the magic byte is not looked at
avro_extract_any_first_byte(data) ==
    IF data = None THEN Err("empty payload")
    ELSE LET p == data[2] IN
         IF Len(p) > 4
         THEN Ok([schema_id |-> from_be_bytes(SubSeq(p, 2, 5)),
                  payload |-> SubSeq(p, 6, Len(p))])
         ELSE Err("invalid payload")

\* fn extract_id_and_payload of deserializer.rs
avro_extract_id_and_payload(data) ==
    IF data = None THEN Err("empty payload")
    ELSE LET p == data[2] IN
         IF Len(p) > 4 /\ p[1] = 0
         THEN Ok([schema_id |-> from_be_bytes(SubSeq(p, 2, 5)),
                  payload |-> SubSeq(p, 6, Len(p))])
         ELSE Err("invalid payload")

\* AvroSchema::parse_str(&schema.schema)?
writer_schema_of(schema) == parse_str(schema.schema)

\* a caller hands deserialize the bytes serialize_value returned, no bytes,
\* four zero bytes, or the frame of an id the registry does not have
Deserialize ==
    /\ job.op = "serialize_value"
    /\ job.pc = "done"
    /\ \E data \in {None, Some(<<0, 0, 0, 0>>), Some(<<0, 0, 0, 0, 9, 4>>)}
                      \cup (IF IsOk(job.result) THEN {Some(job.result[2])} ELSE {}) :
        LET extracted_ == avro_extract_id_and_payload(data)
            j == [job EXCEPT !.op = "deserialize", !.wire = data, !.fetches = <<>>,
                             !.result = NotRun]
        IN job' = IF IsErr(extracted_) THEN Failed(j, extracted_[2])
                  ELSE [j EXCEPT !.pc = "by_id"]
    /\ UNCHANGED registry

\* get_schema_by_id(extracted.schema_id).await?, then parse_str, from_avro_datum
DeserializeById ==
    /\ job.op = "deserialize"
    /\ job.pc = "by_id"
    /\ LET extracted_ == avro_extract_id_and_payload(job.wire)[2]
           schema == client_get_schema_by_id(registry, extracted_.schema_id)
           j == Fetched(job, <<"id", extracted_.schema_id>>)
       IN job' = IF IsErr(schema) THEN Failed(j, "SchemaRegistry")
                 ELSE IF IsErr(writer_schema_of(schema[2])) THEN Failed(j, "Avro")
                 ELSE [j EXCEPT !.pc = "done",
                          !.result = from_avro_datum(writer_schema_of(schema[2])[2],
                                                     extracted_.payload)]
    /\ UNCHANGED registry

(***************************************************************************)
(* blocking/proto_decoder.rs: ProtoDecoder::context, to_resolve_context    *)
(* and the recursion of add_files.  Every fetch is a blocking request; the *)
(* call stack of add_files is job.stack, one frame per active call with    *)
(* the number of references its loop has gone through.                     *)
(***************************************************************************)
\* the deepest add_files recursion the model follows
MaxDepth == 5

\* SRCError: what failed, and the flag the cache sets on the errors it keeps
SRCError(error, cached) == [error |-> error, cached |-> cached]

\* SRCError::into_cache
into_cache(e) == [e EXCEPT !.cached = TRUE]

\* get_schema_by_id_and_type(id, &self.sr_settings, SchemaType::Protobuf)
get_schema_by_id_and_type(reg, id) ==
    LET v == client_get_schema_by_id(reg, id)
    IN IF IsErr(v) THEN Err(SRCError("get_schema_by_id_and_type", FALSE)) ELSE v

\* get_referenced_schema(sr_settings, &r)
get_referenced_schema(reg, r) ==
    LET v == client_get_schema_by_subject(reg, r.subject, Version(r.version))
    IN IF IsErr(v) THEN Err(SRCError("get_referenced_schema", FALSE)) ELSE v

\* Context::parse(&files): the files may import each other; a type defined
\* twice or an import that is not among the files is an error
context_parse(files) == parse_list(files)

\* faulty variant of cache_entry: a cached error counts as no entry
cache_entry_skips_errors(cache, id) == IF IsErr(cache[id]) THEN None ELSE cache[id]

\* self.cache.entry(id): None is Entry::Vacant
cache_entry(cache, id) == cache[id]

\* faulty variant of remove_errors_from_cache: self.cache.clear()
remove_errors_clears_cache(cache) == [i \in DOMAIN cache |-> None]

\* pub fn remove_errors_from_cache(&mut self): self.cache.retain(|_, v| v.is_ok())
remove_errors_from_cache(cache) ==
    [i \in DOMAIN cache |-> IF IsOk(cache[i]) THEN cache[i] ELSE None]

\* faulty variant of add_files_push: the schema goes to the front of the files
add_files_push_front(files, schema) == <<schema>> \o files

\* files.push(registered_schema.schema)
add_files_push(files, schema) == Append(files, schema)

\* context(id), Entry::Vacant: &*e.insert(v), and deserialize goes on with it:
\* Err(e) => Err(Clone::clone(e)); Ok(s) decodes with the context of the files
context_insert(j, v) ==
    [j EXCEPT !.pc = "done", !.result = v, !.cache = [@ EXCEPT ![j.id] = v]]

\* add_files(sr_settings, child_schema, files)?: the loop of the calling frame
\* has gone one reference further, a frame for the child is on top
add_files_descend(j, child_schema) ==
    [j EXCEPT !.stack = Append([@ EXCEPT ![Len(@)].k = @ + 1],
                               [schema |-> child_schema, k |-> 0])]

\* decode(Some(bytes)) with the id of the frame: context(id) answers from the
\* cache, or fetches the schema and enters to_resolve_context
ProtoDecode ==
    /\ job.pc = "idle"
    /\ \E id \in ProtoIds :
        LET begun == [NoJob EXCEPT !.op = "decode", !.id = id, !.cache = job.cache]
            v == get_schema_by_id_and_type(registry, id)
            j == Fetched(begun, <<"id", id>>)
        IN job' = IF cache_entry(job.cache, id) # None
                  THEN [begun EXCEPT !.pc = "done", !.result = cache_entry(job.cache, id)]
                  ELSE IF IsErr(v) THEN context_insert(j, Err(into_cache(v[2])))
                  ELSE [j EXCEPT !.pc = "add_files", !.schema = Some(v[2]),
                                 !.stack = <<[schema |-> v[2], k |-> 0]>>]
    /\ UNCHANGED registry

\* add_files: the next reference of the frame on top is fetched and add_files
\* is called on it; an error goes up through every frame and to_resolve_context
\* into the cache
AddFilesDescend ==
    /\ job.op = "decode"
    /\ job.pc = "add_files"
    /\ Len(job.stack) < MaxDepth
    /\ LET top == job.stack[Len(job.stack)]
           references == RefList(top.schema.references)
       IN /\ top.k < Len(references)
          /\ LET r == references[top.k + 1]
                 child_schema == get_referenced_schema(registry, r)
                 j == Fetched(job, <<r.subject, Version(r.version)>>)
             IN job' = IF IsErr(child_schema) THEN context_insert(j, child_schema)
                       ELSE add_files_descend(j, child_schema[2])
    /\ UNCHANGED registry

\* add_files: the loop of the frame on top is over, its schema is pushed and the
\* call returns; the return of the first call goes on to Context::parse and the
\* outcome into the cache
AddFilesReturn ==
    /\ job.op = "decode"
    /\ job.pc = "add_files"
    /\ LET top == job.stack[Len(job.stack)]
           files == add_files_push(job.files, top.schema.schema)
           j == [job EXCEPT !.files = files, !.stack = SubSeq(@, 1, Len(@) - 1)]
       IN /\ top.k = Len(RefList(top.schema.references))
          /\ job' = IF Len(job.stack) > 1 THEN j
                    ELSE IF IsErr(context_parse(files))
                         THEN context_insert(j, Err(SRCError("Error creating proto context",
                                                             FALSE)))
                         ELSE context_insert(j, Ok(files))
    /\ UNCHANGED registry

\* the caller has the result of decode; the decoder keeps its cache
DecodeReturn ==
    /\ job.op = "decode"
    /\ job.pc = "done"
    /\ job' = [NoJob EXCEPT !.cache = job.cache]
    /\ UNCHANGED registry

\* decoder.remove_errors_from_cache(), between two decode calls
RemoveErrors ==
    /\ job.pc = "idle"
    /\ job.op # "remove_errors_from_cache"
    /\ job' = [NoJob EXCEPT !.op = "remove_errors_from_cache", !.before = job.cache,
                            !.cache = remove_errors_from_cache(job.cache)]
    /\ UNCHANGED registry

\* the schema the registry comes to serve while the decoder lives
LateSchema == Stored(U32(0, 9), StrLateValue, 1, Source("Late", {}), None)

\* the registry becomes able to serve an id it could not serve before.  Every
\* decode asks for its id in its first step, and no schema refers to the late
\* one, so a change during a decode shows as a change right after it
RegistryGains ==
    /\ job.pc = "idle"
    /\ LateSchema \notin registry
    /\ registry' = registry \cup {LateSchema}
    /\ UNCHANGED job

(***************************************************************************)
(* schema-registry-serde-json: SchemaRegistryJsonSerializer and            *)
(* SchemaRegistryJsonDeserializer, with serde_json and jsonschema as they  *)
(* use them.  A serde_json::Value object is the sequence of its fields in  *)
(* the order its map iterates them.                                        *)
(***************************************************************************)
\* "person", "person-value", "person-key", and the field names "age", "name"
StrPerson == <<112, 101, 114, 115, 111, 110>>
StrPersonValue == <<112, 101, 114, 115, 111, 110, 45, 118, 97, 108, 117, 101>>
StrPersonKey == <<112, 101, 114, 115, 111, 110, 45, 107, 101, 121>>
StrAge == <<97, 103, 101>>
StrName == <<110, 97, 109, 101>>

\* serde_json::Value::Number, ::String, and the actual_type error.rs names
JsonNumber(n) == <<"number", n>>
JsonString(text) == <<"string", text>>
actual_type(v) == v[1]

\* the schema sources of the sample registries: a JSON Schema with typed
\* properties, a JSON document that is no JSON Schema, and text that is no JSON
JsonSchemaSource(properties) == [kind |-> "schema", properties |-> properties]
PersonSchema ==
    JsonSchemaSource({<<StrAge, "integer", "number">>, <<StrName, "string", "string">>})
NotASchema == [kind |-> "json", properties |-> {}]
NotJson == [kind |-> "text", properties |-> {}]

\* person-value and person-key hold the same source, under ids 7 and 8
JsonRegistryOf(source) ==
    {Stored(U32(0, 7), StrPersonValue, 1, source, None),
     Stored(U32(0, 8), StrPersonKey, 1, source, None)}
JsonRegistries == {JsonRegistryOf(source) : source \in {PersonSchema, NotASchema, NotJson}}

\* serde_json::from_str::<Value>(&schema.schema)
schema_from_str(source) == IF source.kind = "text" THEN Err("serde_json") ELSE Ok(source)

\* JSONSchema::compile(&parsed_schema)
compile(parsed_schema) ==
    IF parsed_schema.kind = "schema" THEN Ok(parsed_schema) ELSE Err("jsonschema")

\* compiled_schema.validate(&data): the failing instances, one for every
\* property the value holds with a value of another type
validate(compiled_schema, data) ==
    LET failing == {x \in (1..Len(data)) \X compiled_schema.properties :
                        /\ x[2][1] = data[x[1]][1]
                        /\ actual_type(data[x[1]][2]) # x[2][3]}
    IN {[received |-> actual_type(data[x[1]][2]), expected |-> x[2][2], at |-> x[2][1]] :
            x \in failing}

\* the values callers serialize: {"age":12}, {"age":"twelve"}, and
\* {"age":"x","name":5}; and {"age":12,"name":5}, met only in payloads
AgeTwelve == <<<<StrAge, JsonNumber(12)>>>>
AgeAsText == <<<<StrAge, JsonString(<<116, 119, 101, 108, 118, 101>>)>>>>
BothWrong == <<<<StrAge, JsonString(<<120>>)>>, <<StrName, JsonNumber(5)>>>>
NameWrong == <<<<StrAge, JsonNumber(12)>>, <<StrName, JsonNumber(5)>>>>
JsonValues == {AgeTwelve, AgeAsText, BothWrong}

\* serde_json::to_vec(&data): compact JSON, of numbers below 100 and strings
\* that need no escape
decimal(n) == IF n < 10 THEN <<48 + n>> ELSE <<48 + (n \div 10), 48 + (n % 10)>>
scalar_to_vec(v) == IF v[1] = "number" THEN decimal(v[2]) ELSE <<34>> \o v[2] \o <<34>>
RECURSIVE fields_to_vec(_)
fields_to_vec(fields) ==
    IF fields = <<>> THEN <<>>
    ELSE <<34>> \o fields[1][1] \o <<34, 58>> \o scalar_to_vec(fields[1][2])
            \o (IF Tail(fields) = <<>> THEN <<>> ELSE <<44>> \o fields_to_vec(Tail(fields)))
to_vec(data) == <<123>> \o fields_to_vec(data) \o <<125>>

\* the payloads deserialize is given: { "age": 12 } with spaces, {, nothing, and
\* the compact JSON of the values above
SpacedPayload == <<123, 32, 34, 97, 103, 101, 34, 58, 32, 49, 50, 32, 125>>
JsonPayloads ==
    {to_vec(AgeTwelve), to_vec(AgeAsText), to_vec(NameWrong), SpacedPayload, <<123>>, <<>>}

\* the JSON text without the white space between its tokens (no sample string
\* holds a space)
RECURSIVE without_spaces(_)
without_spaces(bytes) ==
    IF bytes = <<>> THEN <<>>
    ELSE (IF Head(bytes) = 32 THEN <<>> ELSE <<Head(bytes)>>) \o without_spaces(Tail(bytes))

\* serde_json::from_slice::<T>(payload): the payload read as JSON, then as T.
\* "Value" is serde_json::Value; "Person" is a struct of one field age: u32, which
\* ignores other fields.
json_from_slice(target, payload) ==
    LET read == {v \in {AgeTwelve, AgeAsText, NameWrong} :
                    to_vec(v) = without_spaces(payload)}
    IN IF read = {} THEN Err("serde_json")
       ELSE LET v == CHOOSE x \in read : TRUE
            IN IF target = "Value" THEN Ok(v)
               ELSE IF v[1][1] = StrAge /\ actual_type(v[1][2]) = "number"
                    THEN Ok([age |-> v[1][2][2]])
                    ELSE Err("serde_json")

\* the buffers deserialize is given: none, one too short, one with another
\* magic byte, and the payloads framed with the id of person-value and with an
\* id the registry does not have
JsonWires ==
    {None, Some(<<0, 0, 0, 0>>), Some(<<1, 0, 0, 0, 7>> \o to_vec(AgeTwelve))}
        \cup {Some(insert_magic_byte_and_id(id, payload)) :
                id \in {U32(0, 7), U32(0, 9)}, payload \in JsonPayloads}

\* serialize_value / serialize_key after the fetch: both unwrap the parse and
\* the compilation of the schema and panic on a validation error, after
\* printing each error
json_serialize_with(j, schema) ==
    LET parsed_schema == schema_from_str(schema.schema)
    IN IF IsErr(parsed_schema)
       THEN [j EXCEPT !.pc = "done", !.result = <<"Panic", "unwrap on Err: serde_json">>]
       ELSE IF IsErr(compile(parsed_schema[2]))
       THEN [j EXCEPT !.pc = "done", !.result = <<"Panic", "unwrap on Err: jsonschema">>]
       ELSE LET e == validate(compile(parsed_schema[2])[2], j.data)
            IN IF e # {}
               THEN [j EXCEPT !.pc = "done", !.printed = e,
                              !.result = <<"Panic", "Validation error">>]
               ELSE [j EXCEPT !.pc = "done",
                        !.result = Ok(insert_magic_byte_and_id(schema.id, to_vec(j.data)))]

\* a caller calls serialize_value or serialize_key
JsonSerialize ==
    /\ job.pc = "idle"
    /\ \E op \in {"json_serialize_value", "json_serialize_key"},
          strategy \in {TopicName(StrPerson), RecordName(StrGone)},
          data \in JsonValues :
        job' = [job EXCEPT !.op = op, !.pc = "latest", !.strategy = strategy,
                           !.data = data]
    /\ UNCHANGED registry

\* get_schema_by_subject(&subject, Version::Latest).await? and the rest of the
\* function
JsonSerializeLatest ==
    /\ job.op \in {"json_serialize_value", "json_serialize_key"}
    /\ job.pc = "latest"
    /\ LET subject == IF job.op = "json_serialize_value" THEN value(job.strategy)
                      ELSE key(job.strategy)
           schema == client_get_schema_by_subject(registry, subject, Latest)
           j == Fetched(job, <<subject, Latest>>)
       IN job' = IF IsErr(schema) THEN Failed(j, "SchemaRegistry")
                 ELSE json_serialize_with([j EXCEPT !.schema = Some(schema[2])], schema[2])
    /\ UNCHANGED registry

\* faulty variant of json_decode: the payload is validated against the fetched
\* schema before it is read as T
json_decode_validating(schema, target, payload) ==
    LET tree == json_from_slice("Value", payload)
    IN IF IsOk(tree) /\ schema.schema.kind = "schema"
            /\ validate(schema.schema, tree[2]) # {}
       THEN Err("SchemaValidation")
       ELSE json_from_slice(target, payload)

\* let t = serde_json::from_slice(extracted.payload)?; the schema is not used
json_decode(schema, target, payload) == json_from_slice(target, payload)

\* a caller calls deserialize::<T>(data)
JsonDeserialize ==
    /\ job.pc = "idle"
    /\ \E data \in JsonWires, target \in {"Value", "Person"} :
        LET j == [job EXCEPT !.op = "json_deserialize", !.wire = data, !.target = target]
        IN job' = IF IsErr(extract_id_and_payload(data))
                  THEN Failed(j, <<"Extract", extract_id_and_payload(data)[2]>>)
                  ELSE [j EXCEPT !.pc = "by_id"]
    /\ UNCHANGED registry

\* get_schema_by_id(extracted.schema_id).await?, then serde_json::from_slice
JsonDeserializeById ==
    /\ job.op = "json_deserialize"
    /\ job.pc = "by_id"
    /\ LET extracted_ == extract_id_and_payload(job.wire)[2]
           schema == client_get_schema_by_id(registry, extracted_.schema_id)
           j == Fetched(job, <<"id", extracted_.schema_id>>)
       IN job' = IF IsErr(schema) THEN Failed(j, "SchemaRegistry")
                 ELSE LET t == json_decode(schema[2], job.target, extracted_.payload)
                      IN IF IsErr(t) THEN Failed(j, "serde_json")
                         ELSE [j EXCEPT !.pc = "done", !.result = t]
    /\ UNCHANGED registry

(***************************************************************************)
(* schema-registry-serde-protobuf: SchemaRegistryProtoSerializer and       *)
(* SchemaRegistryProtoDeserializer.  A call that panics ends with the      *)
(* panic's message in place of a Result.                                   *)
(***************************************************************************)
Panic(message) == <<"Panic", message>>

\* the buffers deserialize is given: none, one too short, one with another
\* magic byte, and frames with the id of a stored schema and with an id the
\* registry does not have
ProtoWires ==
    {None, Some(<<0, 0, 0, 0>>), Some(<<1, 0, 0, 0, 7, 8, 1>>)}
        \cup {Some(insert_magic_byte_and_id(id, <<8, 1>>)) :
                id \in {U32(1, 2), U32(0, 7), U32(0, 9)}}

\* serialize_value(strategy, data) and serialize_key(strategy, data): unimplemented!()
ProtoSerialize ==
    /\ job.pc = "idle"
    /\ \E op \in {"proto_serialize_value", "proto_serialize_key"} :
        job' = [job EXCEPT !.op = op, !.pc = "done", !.result = Panic("not implemented")]
    /\ UNCHANGED registry

\* faulty variant of ProtoDeserialize: the registry is asked before the frame is
\* looked at
ProtoDeserialize_registry_first ==
    /\ job.pc = "idle"
    /\ \E data \in ProtoWires :
        LET j == [job EXCEPT !.op = "proto_deserialize", !.wire = data]
        IN job' = IF IsErr(extract_id_and_payload(data))
                  THEN Failed(Fetched(j, <<"id", U32(0, 0)>>), "SchemaRegistry")
                  ELSE [j EXCEPT !.pc = "by_id"]
    /\ UNCHANGED registry

\* a caller calls deserialize::<T>(data): let extracted = extract_id_and_payload(data)?
ProtoDeserialize ==
    /\ job.pc = "idle"
    /\ \E data \in ProtoWires :
        LET j == [job EXCEPT !.op = "proto_deserialize", !.wire = data]
        IN job' = IF IsErr(extract_id_and_payload(data))
                  THEN Failed(j, <<"Extract", extract_id_and_payload(data)[2]>>)
                  ELSE [j EXCEPT !.pc = "by_id"]
    /\ UNCHANGED registry

\* get_schema_by_id(extracted.schema_id).await?, then
\* ProtoSchema::parse(&schema.schema).unwrap() and todo!(): the call panics in
\* the unwrap when the parse fails and in todo!() when it does not
ProtoDeserializeById ==
    /\ job.op = "proto_deserialize"
    /\ job.pc = "by_id"
    /\ LET extracted_ == extract_id_and_payload(job.wire)[2]
           schema == client_get_schema_by_id(registry, extracted_.schema_id)
           j == Fetched(job, <<"id", extracted_.schema_id>>)
       IN IF IsErr(schema) THEN job' = Failed(j, "SchemaRegistry")
          ELSE \E message \in {"called Result::unwrap() on an Err value",
                               "not yet implemented"} :
                  job' = [j EXCEPT !.pc = "done", !.result = Panic(message)]
    /\ UNCHANGED registry

(***************************************************************************)
(* Specifications                                                          *)
(***************************************************************************)
\* the registry client; the framing harness is at rest
FrIdle ==
    /\ wire = None /\ origin = "raw" /\ fr_id = U32(0, 0) /\ fr_payload = <<>>
    /\ extracted = NotRun

PrIdle == response = NoResponse /\ parsed = NotRun

PuIdle == arg = <<>> /\ ret = NotRun

CoIdle == registry = {} /\ job = NoJob

CfIdle ==
    /\ conf = SchemaRegistryConfig_new
    /\ built = NotRun
    /\ raced = NotRun
    /\ call = <<"new">>

Init ==
    /\ ClInit
    /\ FrIdle
    /\ PrIdle
    /\ CfIdle
    /\ PuIdle
    /\ CoIdle

Next ==
    \/ \E t \in Tasks : CallById(t) /\ UNCHANGED notCl
    \/ \E t \in Tasks : CallBySubject(t) /\ UNCHANGED notCl
    \/ \E t \in Tasks : CallRegister(t) /\ UNCHANGED notCl
    \/ \E t \in Tasks, u \in Urls : ReplicaFail(t, u) /\ UNCHANGED notCl
    \/ \E t \in Tasks, u \in Urls : ReplicaOk(t, u) /\ UNCHANGED notCl
    \/ \E t \in Tasks : FinishSubject(t) /\ UNCHANGED notCl
    \/ \E t \in Tasks : Cancel(t) /\ UNCHANGED notCl
    \/ \E t \in Tasks : Ack(t) /\ UNCHANGED notCl

Spec == Init /\ [][Next]_vars

\* the framing codec; the client is at rest
FrInit ==
    /\ wire \in RawInputs
    /\ origin = "raw"
    /\ fr_id = U32(0, 0)
    /\ fr_payload = <<>>
    /\ extracted = NotRun
    /\ ClInit
    /\ PrIdle
    /\ CfIdle
    /\ PuIdle
    /\ CoIdle

FrNext == Frame \/ Extract

SpecFraming == FrInit /\ [][FrNext]_vars

\* parse_response over sample responses; the client and the codec are at rest
PrInit ==
    /\ response \in ResponseInputs
    /\ parsed = NotRun
    /\ ClInit
    /\ FrIdle
    /\ CfIdle
    /\ PuIdle
    /\ CoIdle

PrNext == ParseResponse

SpecParse == PrInit /\ [][PrNext]_vars

\* building a config and a client from it; everything else is at rest
CfInit ==
    /\ CfIdle
    /\ PuIdle
    /\ CoIdle
    /\ ClInit
    /\ FrIdle
    /\ PrIdle

CfNext ==
    \/ ConfUrl /\ UNCHANGED notCf
    \/ ConfBasicAuth /\ UNCHANGED notCf
    \/ ConfBearerAuth /\ UNCHANGED notCf
    \/ ConfProxy /\ UNCHANGED notCf
    \/ ConfHeaders /\ UNCHANGED notCf
    \/ FromConf /\ UNCHANGED notCf
    \/ FirstCall /\ UNCHANGED notCf

SpecConfig == CfInit /\ [][CfNext]_vars

\* everything but the pure function harness at rest
RestIdle ==
    /\ ClInit
    /\ FrIdle
    /\ PrIdle
    /\ CfIdle

\* SubjectNameStrategy::key and ::value over sample strategies
StInit ==
    /\ arg \in StrategyInputs
    /\ ret = NotRun
    /\ RestIdle
    /\ CoIdle

StNext ==
    \/ StrategyKey /\ UNCHANGED notPu
    \/ StrategyValue /\ UNCHANGED notPu

SpecStrategy == StInit /\ [][StNext]_vars

\* the JSON body of register_schema over sample UnregisteredSchemas
BoInit ==
    /\ arg \in UnregisteredInputs
    /\ ret = NotRun
    /\ RestIdle
    /\ CoIdle

BoNext == SerializeBody /\ UNCHANGED notPu

SpecBody == BoInit /\ [][BoNext]_vars

\* the Avro codec over every sample registry content
AvInit ==
    /\ registry \in Registries
    /\ job = NoJob
    /\ RestIdle
    /\ PuIdle

AvNext ==
    \/ SerializeValue /\ UNCHANGED notCo
    \/ SerializeValueLatest /\ UNCHANGED notCo
    \/ SerializeValueReference /\ UNCHANGED notCo
    \/ Deserialize /\ UNCHANGED notCo
    \/ DeserializeById /\ UNCHANGED notCo

SpecAvro == AvInit /\ [][AvNext]_vars

\* the blocking ProtoDecoder over every sample registry content
PbInit ==
    /\ registry \in Registries
    /\ job = NoJob
    /\ RestIdle
    /\ PuIdle

PbNext ==
    \/ ProtoDecode /\ UNCHANGED notCo
    \/ AddFilesDescend /\ UNCHANGED notCo
    \/ AddFilesReturn /\ UNCHANGED notCo
    \/ DecodeReturn /\ UNCHANGED notCo
    \/ RemoveErrors /\ UNCHANGED notCo
    \/ RegistryGains /\ UNCHANGED notCo

SpecProto == PbInit /\ [][PbNext]_vars

\* the JSON codec over the sample registry contents
JsInit ==
    /\ registry \in JsonRegistries
    /\ job = NoJob
    /\ RestIdle
    /\ PuIdle

JsNext ==
    \/ JsonSerialize /\ UNCHANGED notCo
    \/ JsonSerializeLatest /\ UNCHANGED notCo
    \/ JsonDeserialize /\ UNCHANGED notCo
    \/ JsonDeserializeById /\ UNCHANGED notCo

SpecJson == JsInit /\ [][JsNext]_vars

\* the three codecs side by side, over the sample registry contents of each
SeInit ==
    /\ registry \in Registries \cup JsonRegistries
    /\ job = NoJob
    /\ RestIdle
    /\ PuIdle

SeNext ==
    \/ SerializeValue /\ UNCHANGED notCo
    \/ SerializeValueLatest /\ UNCHANGED notCo
    \/ SerializeValueReference /\ UNCHANGED notCo
    \/ Deserialize /\ UNCHANGED notCo
    \/ DeserializeById /\ UNCHANGED notCo
    \/ JsonSerialize /\ UNCHANGED notCo
    \/ JsonSerializeLatest /\ UNCHANGED notCo
    \/ JsonDeserialize /\ UNCHANGED notCo
    \/ JsonDeserializeById /\ UNCHANGED notCo
    \/ ProtoSerialize /\ UNCHANGED notCo
    \/ ProtoDeserialize /\ UNCHANGED notCo
    \/ ProtoDeserializeById /\ UNCHANGED notCo

SpecSerde == SeInit /\ [][SeNext]_vars

(***************************************************************************)
(* Framing codec properties, checked under SpecFraming                     *)
(***************************************************************************)
\* C1: framing round trip.  Whenever extract_id_and_payload has run on a buffer
\* built by insert_magic_byte_and_id(id, p), it succeeded with schema_id = id and
\* payload = p, for every sampled id of the u32 range and every payload, the
\* empty one included.
C1_RoundTrip ==
    (origin = "framed" /\ extracted # NotRun)
        => extracted = Ok([schema_id |-> fr_id, payload |-> fr_payload])

\* a round trip of id 0x80000000 with the empty payload has run
C1_Witness ==
    /\ origin = "framed"
    /\ fr_id = U32(32768, 0)
    /\ fr_payload = <<>>
    /\ extracted = Ok([schema_id |-> U32(32768, 0), payload |-> <<>>])

\* C2: extract_id_and_payload fails exactly when the input is absent, shorter
\* than 5 bytes, or does not start with 0x00; the error is EmptyData for an absent
\* input, InvalidDataLength for every input shorter than 5 bytes (whatever its
\* first byte), InvalidMagicByte for an input of 5 bytes or more whose first byte
\* is not 0x00; 5 bytes starting with 0x00 give an empty payload.
C2_ExtractErrors ==
    (origin = "raw" /\ extracted # NotRun) =>
        /\ IsErr(extracted) <=> (wire = None \/ Len(wire[2]) < 5 \/ wire[2][1] # 0)
        /\ wire = None => extracted = Err("EmptyData")
        /\ (wire # None /\ Len(wire[2]) < 5) => extracted = Err("InvalidDataLength")
        /\ (wire # None /\ Len(wire[2]) >= 5 /\ wire[2][1] # 0)
                => extracted = Err("InvalidMagicByte")
        /\ (wire # None /\ Len(wire[2]) = 5 /\ wire[2][1] = 0)
                => (IsOk(extracted) /\ extracted[2].payload = <<>>)

\* exactly the 5 bytes [0x00, 0x00, 0x00, 0x00, 0x07] were extracted
C2_Witness ==
    /\ origin = "raw"
    /\ wire = Some(<<0, 0, 0, 0, 7>>)
    /\ extracted = Ok([schema_id |-> U32(0, 7), payload |-> <<>>])

\* whether a buffer starts with the 5-byte prefix [0x00][id_be_u32]
HasPrefix(d) == Len(d) >= 5 /\ d[1] = 0

\* C3 as stated: every present input lacking the 5-byte prefix fails with
\* InvalidMagicByte.
C3_AlwaysInvalidMagicByte ==
    (origin = "raw" /\ extracted # NotRun /\ wire # None /\ ~HasPrefix(wire[2]))
        => extracted = Err("InvalidMagicByte")

\* C3 amended: every present input lacking the 5-byte prefix fails, with
\* InvalidDataLength when it is shorter than 5 bytes and with InvalidMagicByte
\* when it has 5 bytes or more and its first byte is not 0x00.
C3_PrefixErrors ==
    (origin = "raw" /\ extracted # NotRun /\ wire # None /\ ~HasPrefix(wire[2]))
        => extracted = IF Len(wire[2]) < 5 THEN Err("InvalidDataLength")
                       ELSE Err("InvalidMagicByte")

\* a 1-byte input with a wrong magic byte was rejected for its length
C3_Witness ==
    /\ origin = "raw"
    /\ wire = Some(<<1>>)
    /\ extracted = Err("InvalidDataLength")

\* C4: insert_magic_byte_and_id(id, payload) is 5 + len(payload) bytes long, byte 0
\* is 0x00, bytes 1..5 are the id most significant byte first, the rest is the
\* payload; insert(7, [0xDE, 0xAD]) = [0, 0, 0, 0, 7, 0xDE, 0xAD].
C4_InsertLayout ==
    origin = "framed" =>
        /\ wire[1] = "Some"
        /\ LET b == wire[2] IN
            /\ Len(b) = 5 + Len(fr_payload)
            /\ \A k \in 1..Len(b) : b[k] \in 0..255
            /\ b[1] = 0
            /\ b[2] * 256 + b[3] = fr_id[1]
            /\ b[4] * 256 + b[5] = fr_id[2]
            /\ SubSeq(b, 6, Len(b)) = fr_payload
            /\ (fr_id = U32(0, 7) /\ fr_payload = <<222, 173>>)
                    => b = <<0, 0, 0, 0, 7, 222, 173>>

\* id 0x01020304 was framed with payload [0xDE, 0xAD]
C4_Witness ==
    /\ origin = "framed"
    /\ fr_id = U32(258, 772)
    /\ wire = Some(<<0, 1, 2, 3, 4, 222, 173>>)

(***************************************************************************)
(* Registry client properties, checked under Spec.  A step of task t is a  *)
(* step that changes task[t]; every step changes one task.                 *)
(***************************************************************************)
\* C5: get_schema_by_id(id).  When id is in idCache the call returns idCache[id]
\* at once, with no HTTP request and no cache write.  Otherwise it starts one
\* request per url; a step of the race that ends it with Ok writes the schema
\* parsed from the response to idCache[id] and returns that schema; every other
\* step of the race (a failing request, the failure of the call) leaves idCache
\* as it was.
C5_ByIdStep(t) ==
    LET a == task[t]
        b == task'[t]
    IN /\ (a.pc = "idle" /\ b.op = "get_schema_by_id") =>
            /\ id_cache' = id_cache
            /\ IF id_cache[b.id] # None
               THEN b.pc = "done" /\ b.nreq = 0 /\ b.result = Ok(id_cache[b.id][2])
               ELSE /\ b.pc = "racing" /\ b.racing = "id"
                    /\ b.nreq = Cardinality(Urls)
                    /\ \A u \in Urls : b.reqs[u] = "pending"
       /\ (a.pc = "racing" /\ a.op = "get_schema_by_id" /\ a # b) =>
            IF b.pc = "done" /\ IsOk(b.result)
            THEN /\ b.result[2] = RegistrySchema(a.id)
                 /\ id_cache' = [id_cache EXCEPT ![a.id] = Some(b.result[2])]
            ELSE id_cache' = id_cache

C5_GetById == [][\A t \in Tasks : C5_ByIdStep(t)]_vars

\* a get_schema_by_id(1) was answered from idCache, and another by the registry
C5_Witness ==
    \E t, r \in Tasks :
        /\ task[t].pc = "done" /\ task[t].op = "get_schema_by_id" /\ task[t].id = 1
        /\ task[t].nreq = 0 /\ task[t].result = Ok(RegistrySchema(1))
        /\ task[r].pc = "done" /\ task[r].op = "get_schema_by_id" /\ task[r].id = 1
        /\ task[r].nreq = Cardinality(Urls) /\ task[r].result = Ok(RegistrySchema(1))

\* C6: once a get_schema_by_id(i) has succeeded, every later get_schema_by_id(i)
\* returns the identical Schema: two completed get_schema_by_id(i) calls never
\* hold different schemas.
C6_SameSchemaForId ==
    \A t, r \in Tasks :
        ( /\ task[t].pc = "done" /\ task[t].op = "get_schema_by_id" /\ IsOk(task[t].result)
          /\ task[r].pc = "done" /\ task[r].op = "get_schema_by_id" /\ IsOk(task[r].result)
          /\ task[t].id = task[r].id )
        => task[t].result = task[r].result

\* C7: while a caller holds the result of a successful register_schema(subject, s)
\* that the registry answered with id i, every get_schema_by_id(i) that begins
\* returns at once, without HTTP request, the schema of type s.schema_type and
\* source s.schema.
C7_RegisterThenGetById ==
    [][\A r, t \in Tasks :
        ( /\ task[r].pc = "done" /\ task[r].op = "register_schema" /\ IsOk(task[r].result)
          /\ task[t].pc = "idle" /\ task'[t].op = "get_schema_by_id"
          /\ task'[t].id = task[r].id )
        => /\ task'[t].pc = "done"
           /\ task'[t].nreq = 0
           /\ task'[t].result = Ok(Schema(task[r].unreg.schema_type, task[r].unreg.schema))
      ]_vars

\* C8: every successful get_schema_by_subject(s, v) returns the schema the
\* registry holds for s at version v.
C8_SubjectAtVersion ==
    \A t \in Tasks :
        (task[t].pc = "done" /\ task[t].op = "get_schema_by_subject" /\ IsOk(task[t].result))
        => LET subject == RegistrySubject(task[t].subject, task[t].version)
           IN task[t].result = Ok(Schema(subject.schema_type, subject.schema))

\* C9: get_schema_by_subject(s, v).  With subjectCache[s] set, the call sends no
\* subject request and does what get_schema_by_id(subjectCache[s]) does.
\* Otherwise it starts one subject request per url; the step that receives the
\* Subject writes idCache[subject.id] = (schemaType, schema), the next step
\* writes subjectCache[subject.subject] = subject.id, under the name the registry
\* returned (the entry of a different supplied name is untouched), and returns
\* the schema; a failing race writes nothing.
C9_BySubjectStep(t) ==
    LET a == task[t]
        b == task'[t]
    IN /\ (a.pc = "idle" /\ b.op = "get_schema_by_subject") =>
            /\ id_cache' = id_cache /\ subject_cache' = subject_cache
            /\ IF subject_cache[b.subject] # None
               THEN LET i == subject_cache[b.subject][2] IN
                    /\ b.racing # "subject"
                    /\ b.id = i
                    /\ IF id_cache[i] # None
                       THEN b.pc = "done" /\ b.nreq = 0 /\ b.result = Ok(id_cache[i][2])
                       ELSE b.pc = "racing" /\ b.racing = "id"
               ELSE /\ b.pc = "racing" /\ b.racing = "subject"
                    /\ b.nreq = Cardinality(Urls)
                    /\ \A u \in Urls : b.reqs[u] = "pending"
       /\ (a.pc = "racing" /\ a.racing = "subject" /\ a # b) =>
            /\ subject_cache' = subject_cache
            /\ IF b.pc = "inserting"
               THEN /\ b.resp = RegistrySubject(a.subject, a.version)
                    /\ id_cache' = [id_cache EXCEPT ![b.resp.id] =
                                        Some(Schema(b.resp.schema_type, b.resp.schema))]
               ELSE /\ id_cache' = id_cache
                    /\ b.pc = "done" => IsErr(b.result)
       /\ (a.pc = "inserting" /\ a # b) =>
            /\ id_cache' = id_cache
            /\ subject_cache' = [subject_cache EXCEPT ![a.resp.subject] = Some(a.resp.id)]
            /\ a.resp.subject # a.subject
                    => subject_cache'[a.subject] = subject_cache[a.subject]
            /\ b.pc = "done"
            /\ b.result = Ok(Schema(a.resp.schema_type, a.resp.schema))

C9_GetBySubject == [][\A t \in Tasks : C9_BySubjectStep(t)]_vars

\* a lookup by the alias "al" was answered by the registry as subject "s": only
\* "s" is in subjectCache; and a lookup by "s" was then answered from the caches
C9_Witness ==
    \E t, r \in Tasks :
        /\ task[t].pc = "done" /\ task[t].op = "get_schema_by_subject"
        /\ task[t].subject = "al" /\ task[t].nreq = Cardinality(Urls)
        /\ IsOk(task[t].result)
        /\ subject_cache["s"] # None /\ subject_cache["al"] = None
        /\ task[r].pc = "done" /\ task[r].op = "get_schema_by_subject"
        /\ task[r].subject = "s" /\ task[r].nreq = 0 /\ IsOk(task[r].result)

\* C10: no step of a register_schema call, successful or failed, changes
\* subjectCache; its only cache write is idCache[id] = the submitted schema, in
\* the step that ends it with Ok and the registry's id.
C10_RegisterStep(t) ==
    LET a == task[t]
        b == task'[t]
    IN (a # b /\ (a.op = "register_schema" \/ b.op = "register_schema")) =>
        /\ subject_cache' = subject_cache
        /\ IF a.pc = "racing" /\ b.pc = "done" /\ IsOk(b.result)
           THEN id_cache' = [id_cache EXCEPT ![b.id] =
                                Some(Schema(a.unreg.schema_type, a.unreg.schema))]
           ELSE id_cache' = id_cache

C10_RegisterFrame == [][\A t \in Tasks : C10_RegisterStep(t)]_vars

\* a register_schema("s", ..) succeeded with id 1 and a failed one ended, and
\* subjectCache is still empty
C10_Witness ==
    \E t, r \in Tasks :
        /\ task[t].pc = "done" /\ task[t].op = "register_schema"
        /\ task[t].subject = "s" /\ task[t].id = 1 /\ IsOk(task[t].result)
        /\ id_cache[1] # None
        /\ task[r].pc = "done" /\ task[r].op = "register_schema" /\ IsErr(task[r].result)
        /\ \A s \in SubjectNames : subject_cache[s] = None

\* C11 as stated: after a successful register_schema(subject, s) that returned
\* id i, subjectCache maps the subject to i.
C11_RegisterFillsSubjectCache ==
    \A t \in Tasks :
        (task[t].pc = "done" /\ task[t].op = "register_schema" /\ IsOk(task[t].result))
            => subject_cache[task[t].subject] = Some(task[t].id)

\* C11 amended: subjectCache is populated by successful fetch-by-subject only.
\* Every entry subjectCache[n] = i is one a Subject response of the registry
\* carried (n its subject name, i the id of one of its versions); a successful
\* register_schema(subject, s) with id i has written idCache[i], and the subject
\* has an entry only if a fetch-by-subject put it there, which need not be i.
C11_SubjectCacheFromFetchOnly ==
    /\ \A n \in SubjectNames :
        subject_cache[n] # None =>
            \E s \in SubjectArgs, v \in VersionArgs :
                /\ RegistrySubject(s, v).subject = n
                /\ subject_cache[n] = Some(RegistrySubject(s, v).id)
    /\ \A t \in Tasks :
        (task[t].pc = "done" /\ task[t].op = "register_schema" /\ IsOk(task[t].result))
            => id_cache[task[t].id] # None

\* a register_schema("al", ..) returned id 1 while subjectCache, filled by a
\* get_schema_by_subject, maps "s" to 2 and holds nothing for "al"
C11_Witness ==
    \E t, r \in Tasks :
        /\ task[t].pc = "done" /\ task[t].op = "register_schema"
        /\ task[t].subject = "al" /\ task[t].id = 1 /\ IsOk(task[t].result)
        /\ task[r].pc = "done" /\ task[r].op = "get_schema_by_subject"
        /\ IsOk(task[r].result)
        /\ subject_cache["s"] = Some(2)
        /\ subject_cache["al"] = None

\* C12: replica racing returns the first successful response.  In a race, the
\* step in which a request resolves Ok ends the race with that response whatever
\* number of requests failed before it (every request resolved earlier was a
\* failure, so it is the first success), the call goes on to succeed, and the
\* requests still in flight are dropped; a failure ends the call only when no
\* request is left.  A call that is over has no request in flight, and no step
\* of a caller whose call is over writes a cache.
C12_RaceStep(t) ==
    LET a == task[t]
        b == task'[t]
    IN /\ (a.pc = "racing" /\ \E u \in Urls : a.reqs[u] = "pending" /\ b.reqs[u] = "ok") =>
            LET u == CHOOSE w \in Urls : a.reqs[w] = "pending" /\ b.reqs[w] = "ok" IN
            /\ b.order = Append(a.order, u)
            /\ \A k \in 1..Len(a.order) : a.reqs[a.order[k]] = "failed"
            /\ \A w \in Urls \ {u} :
                  b.reqs[w] = IF a.reqs[w] = "failed" THEN "failed" ELSE "dropped"
            /\ CASE a.racing = "id" ->
                      b.pc = "done" /\ b.result = Ok(RegistrySchema(a.id))
                 [] a.racing = "subject" ->
                      b.pc = "inserting" /\ b.resp = RegistrySubject(a.subject, a.version)
                 [] a.racing = "register" ->
                      /\ b.pc = "done" /\ IsOk(b.result)
                      /\ b.id \in RegistryRegister(a.subject, a.unreg)
       /\ (a.pc = "racing" /\ b.pc = "done" /\ IsErr(b.result)) =>
            \A u \in Urls : b.reqs[u] = "failed"
       /\ (a.pc = "inserting" /\ a # b) => (b.pc = "done" /\ IsOk(b.result))
       /\ (a.pc # "racing") => \A u \in Urls : a.reqs[u] # "pending"
       /\ (a.pc \in {"idle", "done"} /\ a # b) =>
            (id_cache' = id_cache /\ subject_cache' = subject_cache)

C12_FirstSuccessWins == [][\A t \in Tasks : C12_RaceStep(t)]_vars

\* a get_schema_by_id(1) succeeded on the url configured last after the other
\* request had failed, and a get_schema_by_subject succeeded on its first
\* response, its other request dropped in flight
C12_Witness ==
    \E t, r \in Tasks :
        /\ task[t].pc = "done" /\ task[t].op = "get_schema_by_id" /\ task[t].id = 1
        /\ task[t].order = <<"u1", "u2">> /\ task[t].reqs["u1"] = "failed"
        /\ task[t].result = Ok(RegistrySchema(1))
        /\ task[r].pc = "done" /\ task[r].op = "get_schema_by_subject"
        /\ task[r].order = <<"u2">> /\ task[r].reqs["u1"] = "dropped"
        /\ IsOk(task[r].result)

\* C13: a call fails in its race exactly when all its requests failed, and the
\* error it returns is the one of the request that failed last in the order the
\* requests resolved.
C13_LastErrorReturned ==
    \A t \in Tasks :
        /\ (task[t].pc = "done" /\ IsErr(task[t].result)) =>
              /\ \A u \in Urls : task[t].reqs[u] = "failed"
              /\ Len(task[t].order) = Len(UrlList)
              /\ task[t].result = Err(task[t].order[Len(task[t].order)])
        /\ (\A u \in Urls : task[t].reqs[u] = "failed") =>
              (task[t].pc = "done" /\ IsErr(task[t].result))

\* a call failed with the error of u1: u2, the url configured last, failed
\* first and u1 failed last
C13_Witness ==
    \E t \in Tasks :
        /\ task[t].pc = "done"
        /\ task[t].order = <<UrlList[Len(UrlList)], UrlList[1]>>
        /\ task[t].result = Err(UrlList[1])

\* C14: the client never caches errors.  No step in which a request of a call
\* fails, the last one that fails the call included, changes idCache or
\* subjectCache; and while a caller holds the error of a failed call, an
\* identical call begun by another caller never returns an error from its cache
\* check: it races all the urls again unless a successful call has meanwhile
\* cached the key (register_schema races always).
SameCall(a, b) ==
    /\ a.op = b.op
    /\ a.id = b.id
    /\ a.subject = b.subject
    /\ a.version = b.version
    /\ a.unreg = b.unreg

C14_FailStep(t) ==
    LET a == task[t]
        b == task'[t]
    IN /\ (a.pc = "racing" /\ \E u \in Urls : a.reqs[u] = "pending" /\ b.reqs[u] = "failed") =>
            (id_cache' = id_cache /\ subject_cache' = subject_cache)
       /\ \A r \in Tasks \ {t} :
            (/\ a.pc = "done" /\ IsErr(a.result)
             /\ task[r].pc = "idle" /\ task'[r].pc # "idle"
             /\ SameCall(task'[r], a)) =>
                LET c == task'[r]
                    cached == CASE a.op = "get_schema_by_id" -> id_cache[a.id] # None
                                [] a.op = "get_schema_by_subject" ->
                                       subject_cache[a.subject] # None
                                [] OTHER -> FALSE
                IN IF cached
                   THEN c.pc = "done" /\ IsOk(c.result)
                   ELSE /\ c.pc = "racing"
                        /\ c.nreq = Len(UrlList)
                        /\ \A u \in Urls : c.reqs[u] = "pending"

C14_ErrorsNotCached == [][\A t \in Tasks : C14_FailStep(t)]_vars

\* one get_schema_by_id(1) failed on both urls, an identical call raced both
\* urls and succeeded, and a failed get_schema_by_subject left subjectCache empty
C14_Witness ==
    \E t, r \in Tasks :
        /\ task[t].pc = "done" /\ task[t].op = "get_schema_by_id" /\ task[t].id = 1
        /\ IsErr(task[t].result)
        /\ task[r].pc = "done" /\ task[r].op = "get_schema_by_id" /\ task[r].id = 1
        /\ task[r].nreq = Len(UrlList) /\ task[r].result = Ok(RegistrySchema(1))
        /\ id_cache[2] = None
        /\ \A s \in SubjectNames : subject_cache[s] = None

\* C15: caches are never evicted.  In every step, every key of idCache and of
\* subjectCache is still a key afterwards.
C15_NoEviction ==
    [][/\ \A i \in DOMAIN id_cache : id_cache[i] # None => id_cache'[i] # None
       /\ \A s \in DOMAIN subject_cache :
             subject_cache[s] # None => subject_cache'[s] # None]_vars

\* both registry ids and a subject are cached after calls of all three kinds
C15_Witness ==
    /\ \A i \in RegistryIds : id_cache[i] # None
    /\ subject_cache["s"] # None
    /\ \E t, r \in Tasks :
        /\ task[t].pc = "done" /\ task[t].op = "register_schema" /\ IsOk(task[t].result)
        /\ task[r].pc = "done" /\ task[r].op = "get_schema_by_id" /\ IsOk(task[r].result)

\* C16 as stated: in no reachable state do the caches hold only part of one
\* operation's writes: whenever a fetch-by-subject has written
\* idCache[subject.id] for its response, subjectCache[subject.subject] is set.
C16_NoPartialWrites ==
    \A t \in Tasks :
        (task[t].resp # NoSubject /\ id_cache[task[t].resp.id] # None)
            => subject_cache[task[t].resp.subject] # None

\* C16 amended: a cache is written only by a call whose race has resolved Ok
\* with a parsed response; a call can be cancelled only while it awaits its race,
\* and cancelling writes nothing; the one state holding part of an operation's
\* writes is the one between the two inserts of a fetch-by-subject, with
\* idCache[subject.id] written, and from it the call can only go on to write
\* subjectCache[subject.subject] = subject.id and return Ok.
C16_WriteStep ==
    /\ (id_cache' # id_cache \/ subject_cache' # subject_cache) =>
          \E t \in Tasks :
              \/ /\ task[t].pc = "racing"
                 /\ \E u \in Urls : task[t].reqs[u] = "pending" /\ task'[t].reqs[u] = "ok"
              \/ task[t].pc = "inserting"
    /\ \A t \in Tasks :
          LET a == task[t]
              b == task'[t]
          IN /\ (a # b /\ b.pc = "idle") => a.pc \in {"racing", "done"}
             /\ (a.pc = "racing" /\ b.pc = "idle") =>
                    (id_cache' = id_cache /\ subject_cache' = subject_cache)
             /\ (a.pc = "inserting") =>
                    /\ id_cache[a.resp.id] # None
                    /\ a # b =>
                          /\ b.pc = "done" /\ IsOk(b.result)
                          /\ id_cache' = id_cache
                          /\ subject_cache' =
                                [subject_cache EXCEPT ![a.resp.subject] = Some(a.resp.id)]

C16_WritesOnlyAfterParse == [][C16_WriteStep]_vars

\* a fetch-by-subject stands between its two inserts, idCache[1] written and
\* subjectCache["s"] not, while the other caller's call is in its race
C16_Witness ==
    \E t, r \in Tasks :
        /\ task[t].pc = "inserting" /\ task[t].resp.subject = "s" /\ task[t].resp.id = 1
        /\ id_cache[1] # None
        /\ subject_cache["s"] = None
        /\ task[r].pc = "racing"

\* C17: the cache is not single-flight but stays consistent.  A
\* get_schema_by_id(i) begun while idCache lacks i and another caller's requests
\* for i are in flight misses too and issues its own requests to all urls; when
\* one of two such calls resolves Ok its write is admitted, idCache[i] then
\* equals the schema it returns, and when the other call has already returned,
\* the two returned schemas are equal.
C17_Step(t, r) ==
    LET a == task[t]
        b == task'[t]
        o == task[r]
    IN /\ (/\ a.pc = "idle" /\ b.op = "get_schema_by_id" /\ id_cache[b.id] = None
           /\ o.pc = "racing" /\ o.racing = "id" /\ o.id = b.id) =>
              /\ b.pc = "racing"
              /\ b.nreq = Len(UrlList)
              /\ \A u \in Urls : b.reqs[u] = "pending"
       /\ (/\ a.pc = "racing" /\ a.op = "get_schema_by_id"
           /\ b.pc = "done" /\ IsOk(b.result)
           /\ o.op = "get_schema_by_id" /\ o.id = a.id /\ o.nreq = Len(UrlList)
           /\ o.pc \in {"racing", "done"}) =>
              /\ id_cache'[a.id] = Some(b.result[2])
              /\ (o.pc = "done" /\ IsOk(o.result)) => b.result = o.result

C17_ConcurrentMisses == [][\A t, r \in Tasks : t # r => C17_Step(t, r)]_vars

\* two get_schema_by_id(1) calls both missed, both raced all urls, and both
\* returned the schema idCache[1] now holds
C17_Witness ==
    \E t, r \in Tasks :
        /\ t # r
        /\ task[t].pc = "done" /\ task[r].pc = "done"
        /\ task[t].op = "get_schema_by_id" /\ task[r].op = "get_schema_by_id"
        /\ task[t].id = 1 /\ task[r].id = 1
        /\ task[t].nreq = Len(UrlList) /\ task[r].nreq = Len(UrlList)
        /\ IsOk(task[t].result) /\ task[t].result = task[r].result
        /\ id_cache[1] = Some(task[t].result[2])

BodyCarried(body, bytes) ==
    /\ Len(body) = Len(bytes)
    /\ \A k \in 1..Len(bytes) :
          body[k] = IF bytes[k] < 128 THEN bytes[k] ELSE 65533
    /\ (\A k \in 1..Len(bytes) : bytes[k] < 128) => as_bytes(body) = bytes

C19_EmptyUrlsRejected ==
    built # NotRun =>
        /\ (\/ Len(conf.urls) = 0
            \/ conf.proxy = Some("::not a url")
            \/ (conf.headers # None /\ \E h \in conf.headers[2] :
                    \/ header_name_from_str(h[1]) = None
                    \/ ~header_value_from_str_ok(h[2]))) => IsErr(built)
        /\ IsOk(built) => Len(built[2].urls) >= 1
        /\ raced # NotRun => (raced[1] = "Raced" /\ Len(raced[2]) >= 1)

\* C20: a successful register_schema returns both the id the registry assigned
\* and the Schema built from the submitted source, with the schema_type and the
\* schema text of the submitted UnregisteredSchema.
C20_RegisterReturnsIdAndSchema ==
    \A t \in Tasks :
        (task[t].pc = "done" /\ task[t].op = "register_schema" /\ IsOk(task[t].result))
            => task[t].result[2] =
                  [id |-> task[t].id,
                   schema |-> Schema(task[t].unreg.schema_type, task[t].unreg.schema)]

\* C21: Basic and Bearer authentication are mutually exclusive.  The config
\* holds no authentication or exactly one, Basic or Bearer; a basic_auth or
\* bearer_auth call that gives a username or a token makes the authentication
\* the one it gives, whatever was configured before; a call that gives none, and
\* every other builder call, leaves the authentication as it was.
C21_AuthStep ==
    /\ conf'.authentication = None
          \/ /\ conf'.authentication[1] = "Some"
             /\ conf'.authentication[2].kind \in {"Basic", "Bearer"}
    /\ IF call'[1] = "basic_auth" /\ call'[2] # None
       THEN conf'.authentication =
                Some([kind |-> "Basic", username |-> call'[2][2], password |-> call'[3]])
       ELSE IF call'[1] = "bearer_auth" /\ call'[2] # None
       THEN conf'.authentication = Some([kind |-> "Bearer", token |-> call'[2][2]])
       ELSE conf'.authentication = conf.authentication

C21_OneAuthentication == [][C21_AuthStep]_vars

\* bearer_auth("tok") was the last call on a config that has a url, and the
\* authentication is Bearer "tok"
C21_Witness ==
    /\ call = <<"bearer_auth", Some(StrTok)>>
    /\ conf.authentication = Some([kind |-> "Bearer", token |-> StrTok])
    /\ Len(conf.urls) > 0

\* C22: when the config carries an authentication, every request of every
\* operation to every url carries exactly one Authorization header; its value is
\* "Basic " followed by base64 text that decodes to username ":" password (the
\* password empty when there is none) or "Bearer " followed by the token, and it
\* is marked sensitive.
b64_index(c) ==
    IF c >= 65 /\ c <= 90 THEN c - 65
    ELSE IF c >= 97 /\ c <= 122 THEN c - 71
    ELSE IF c >= 48 /\ c <= 57 THEN c + 4
    ELSE IF c = 43 THEN 62 ELSE 63

RECURSIVE base64_decode(_)
base64_decode(text) ==
    IF Len(text) < 4 THEN <<>>
    ELSE LET a == b64_index(text[1])
             b == b64_index(text[2])
             c == b64_index(text[3])
             d == b64_index(text[4])
         IN IF text[3] = 61 THEN <<a * 4 + b \div 16>>
            ELSE IF text[4] = 61 THEN <<a * 4 + b \div 16, (b % 16) * 16 + c \div 4>>
            ELSE <<a * 4 + b \div 16, (b % 16) * 16 + c \div 4, (c % 4) * 64 + d>>
                 \o base64_decode(SubSeq(text, 5, Len(text)))

AuthorizationOf(req) == {e \in req.headers : e[1] = "authorization"}

C22_AuthorizationOnEveryRequest ==
    (raced # NotRun /\ raced[1] = "Raced" /\ conf.authentication # None) =>
        LET auth == conf.authentication[2]
        IN /\ Len(raced[2]) = Len(conf.urls)
           /\ \A k \in 1..Len(raced[2]) :
               /\ raced[2][k].url = conf.urls[k]
               /\ Cardinality(AuthorizationOf(raced[2][k])) = 1
               /\ \A e \in AuthorizationOf(raced[2][k]) :
                   /\ e[2].sensitive
                   /\ IF auth.kind = "Bearer"
                      THEN e[2].value = <<66, 101, 97, 114, 101, 114, 32>> \o auth.token
                      ELSE /\ SubSeq(e[2].value, 1, 6) = <<66, 97, 115, 105, 99, 32>>
                           /\ (Len(e[2].value) - 6) % 4 = 0
                           /\ base64_decode(SubSeq(e[2].value, 7, Len(e[2].value))) =
                                 auth.username \o <<58>> \o
                                 (IF auth.password = None THEN <<>> ELSE auth.password[2])

\* a register_schema raced two urls with Authorization: Basic YWxpY2U6czNjcmV0,
\* built from ("alice", "s3cret") on a config whose headers held their own
\* Authorization entry
C22_Witness ==
    /\ raced # NotRun /\ raced[1] = "Raced" /\ Len(raced[2]) = 2
    /\ conf.authentication =
          Some([kind |-> "Basic", username |-> StrAlice, password |-> Some(StrS3cret)])
    /\ conf.headers = Some({<<"Authorization", StrProd>>})
    /\ \A k \in 1..2 :
          /\ raced[2][k].op = "register_schema"
          /\ AuthorizationOf(raced[2][k]) =
                {<<"authorization",
                   HeaderValue(<<66, 97, 115, 105, 99, 32, 89, 87, 120, 112, 89, 50, 85, 54,
                                 99, 122, 78, 106, 99, 109, 86, 48>>, TRUE)>>}

\* C23: SubjectNameStrategy maps names to subjects without normalization.
\* TopicName(t) and RecordName(r) give the name followed by "-key" / "-value",
\* TopicRecordName(t, r) gives t "-" r "-key" / "-value", SubjectName(s) gives s
\* for both; so the result ends with "-key" (or "-value") for every variant but
\* SubjectName.
EndsWith(text, suffix) ==
    /\ Len(text) >= Len(suffix)
    /\ SubSeq(text, Len(text) - Len(suffix) + 1, Len(text)) = suffix

C23_SubjectNames ==
    ret # NotRun =>
        LET suffix == IF ret[1] = "key" THEN <<45, 107, 101, 121>>
                      ELSE <<45, 118, 97, 108, 117, 101>>
            out == ret[2]
        IN /\ arg[1] \in {"TopicName", "RecordName"} => out = arg[2] \o suffix
           /\ arg[1] = "TopicRecordName" =>
                 /\ out = arg[2] \o <<45>> \o arg[3] \o suffix
                 /\ SubSeq(out, 1, Len(arg[2])) = arg[2]
           /\ arg[1] = "SubjectName" => out = arg[2]
           /\ arg[1] # "SubjectName" => EndsWith(out, suffix)

\* key() of TopicRecordName("a.b", "T") is "a.b-T-key"
C23_Witness ==
    /\ arg = TopicRecordName(<<97, 46, 98>>, <<84>>)
    /\ ret = <<"key", <<97, 46, 98, 45, 84, 45, 107, 101, 121>>>>

\* C24: the JSON body of register_schema holds exactly schema, schemaType and,
\* only when there is at least one reference, references: with no references or
\* an empty reference list the references field is absent.
C24_ReferencesOmittedWhenEmpty ==
    (ret # NotRun /\ ret[1] = "json") =>
        LET names == [k \in 1..Len(ret[2]) |-> ret[2][k][1]]
            has_refs == arg.references # None /\ Len(arg.references[2]) > 0
        IN names = IF has_refs THEN <<"schema", "schemaType", "references">>
                   ELSE <<"schema", "schemaType">>

(***************************************************************************)
(* Avro codec properties, checked under SpecAvro                           *)
(***************************************************************************)
IsPrefix(s, t) == Len(s) <= Len(t) /\ SubSeq(t, 1, Len(s)) = s

\* the fetches serialize_value(strategy, ..) is to make against a registry
\* content: the subject's latest schema, then each of its references in turn
FetchesDue(reg, strategy) ==
    LET subject == value(strategy)
        all == {e \in reg : e.subject = subject}
        latest == {e \in all : \A o \in all : o.version <= e.version}
        references == IF latest = {} THEN <<>>
                      ELSE RefList((CHOOSE e \in latest : TRUE).references)
    IN <<<<subject, Latest>>>>
         \o [k \in 1..Len(references) |->
                <<references[k].subject, Version(references[k].version)>>]

Referenced(reg, S) ==
    {e \in reg : \E s \in S : \E k \in 1..Len(RefList(s.references)) :
        /\ e.subject = RefList(s.references)[k].subject
        /\ e.version = RefList(s.references)[k].version}
Reachable(reg, root) ==
    LET r1 == Referenced(reg, {root})
        r2 == r1 \cup Referenced(reg, r1)
        r3 == r2 \cup Referenced(reg, r2)
    IN r3 \cup Referenced(reg, r3)

\* no schema reachable from root, root included, leads back to itself
Acyclic(reg, root) ==
    \A e \in {o \in reg : o.id = root.id} \cup Reachable(reg, root) :
        e \notin Reachable(reg, e)

\* C26: the list serialize_value hands to the parser holds every schema
\* reachable from the subject's schema through references, not only the
\* directly referenced ones, each referenced schema before the schema that
\* refers to it and the subject's schema last; the list is never empty.
\* (Stated for references that form a DAG; cycles are C28's.)
C26_AllReachableResolved ==
    (job.op = "serialize_value" /\ job.input # None
        /\ Acyclic(registry, job.schema[2])) =>
        LET input == job.input[2]
            root == job.schema[2]
        IN /\ input # <<>>
           /\ input[Len(input)] = root.schema
           /\ \A e \in Reachable(registry, root) \ {o \in registry : o.id = root.id} :
                \E k \in 1..(Len(input) - 1) : input[k] = e.schema
           /\ \A l \in 1..Len(input) : \A e \in registry :
                (e.schema = input[l] /\ e.id = job.schemas[l].id) =>
                    \A d \in Referenced(registry, {e}) :
                        \E k \in 1..Len(input) : k < l /\ input[k] = d.schema

\* C27: deserialize decodes every payload serialize_value produced for a schema
\* with references: it returns the value that was serialized.
C27_DecodesOwnPayloads ==
    (/\ job.op = "deserialize" /\ job.pc = "done"
     /\ job.produced # None /\ job.wire = job.produced
     /\ RefList(job.schema[2].references) # <<>>)
        => job.result = Ok(job.data)

(***************************************************************************)
(* Reference resolution of the blocking ProtoDecoder, checked under        *)
(* SpecProto                                                               *)
(***************************************************************************)
\* C28: reference resolution terminates for every registry content: when a
\* schema refers to itself, directly or through others, the cycle is detected and
\* the call fails after finitely many fetches.  A resolution that detects cycles
\* never starts on a schema it is already resolving: no schema is twice on the
\* call stack of add_files.
C28_CyclesDetected ==
    job.op = "decode" =>
        \A k, l \in 1..Len(job.stack) :
            k # l => job.stack[k].schema.id # job.stack[l].schema.id

(***************************************************************************)
(* JSON codec properties, checked under SpecJson                           *)
(***************************************************************************)
\* C29: serialize_value and serialize_key, given a value that violates the
\* subject's JSON Schema, return a SchemaValidation error listing every failing
\* instance and no framed bytes; given a conforming value they return the frame
\* with the subject schema's id followed by the compact JSON of the value.
C29_ValidationErrorReturned ==
    (/\ job.op \in {"json_serialize_value", "json_serialize_key"}
     /\ job.pc = "done"
     /\ job.schema # None
     /\ job.schema[2].schema.kind = "schema")
        => LET failing == validate(job.schema[2].schema, job.data)
           IN IF failing # {}
              THEN job.result = Err(<<"SchemaValidation", failing>>)
              ELSE job.result =
                      Ok(<<0>> \o to_be_bytes(job.schema[2].id) \o to_vec(job.data))

\* C30: deserialize succeeds exactly when the frame is valid, the schema of the
\* frame's id can be fetched and the payload parses into the target shape, and
\* then returns the parsed payload; with a valid frame and an id that cannot be
\* fetched it fails with the registry error whatever the payload; the payload
\* is never validated against the fetched schema.
C30_DeserializeOutcome ==
    (job.op = "json_deserialize" /\ job.pc = "done") =>
        LET frame_valid ==
                job.wire # None /\ Len(job.wire[2]) >= 5 /\ job.wire[2][1] = 0
            id == from_be_bytes(SubSeq(job.wire[2], 2, 5))
            payload == SubSeq(job.wire[2], 6, Len(job.wire[2]))
            fetched == \E e \in registry : e.id = id
        IN /\ IsOk(job.result) <=>
                (frame_valid /\ fetched /\ IsOk(json_from_slice(job.target, payload)))
           /\ IsOk(job.result) => job.result = json_from_slice(job.target, payload)
           /\ (frame_valid /\ ~fetched) => job.result = Err("SchemaRegistry")
           /\ ~frame_valid => (IsErr(job.result) /\ job.fetches = <<>>)

\* {"age":12,"name":5} violates the schema of id 7 (name is to be a string) and
\* still decodes into a Person
C30_Witness ==
    /\ job.op = "json_deserialize" /\ job.pc = "done"
    /\ job.wire = Some(<<0, 0, 0, 0, 7>> \o to_vec(NameWrong))
    /\ validate(PersonSchema, NameWrong) # {}
    /\ \E e \in registry : e.id = U32(0, 7) /\ e.schema = PersonSchema
    /\ job.result = Ok([age |-> 12])

\* C35: basic_auth called with no username and bearer_auth called with no token
\* apply nothing: the authentication after the call is the one before it (None
\* stays None, a Basic or Bearer configured earlier is kept) and urls, proxy and
\* headers are unchanged.
C35_AbsentStep ==
    (\/ call'[1] = "basic_auth" /\ call'[2] = None
     \/ call'[1] = "bearer_auth" /\ call'[2] = None)
    => /\ conf'.authentication = conf.authentication
       /\ conf'.urls = conf.urls
       /\ conf'.proxy = conf.proxy
       /\ conf'.headers = conf.headers

C35_AbsentCredentialsApplyNothing == [][C35_AbsentStep]_vars

\* basic_auth(None, password) was the last call, on a config that has a url and a
\* Bearer authentication configured earlier, which is still there
C35_Witness ==
    /\ call[1] = "basic_auth"
    /\ call[2] = None
    /\ Len(conf.urls) > 0
    /\ conf.authentication = Some([kind |-> "Bearer", token |-> StrTok])

\* C40: the Avro deserializer's private extract_id_and_payload is equivalent to
\* the shared extract_id_and_payload of schema-registry-serde: on every optional
\* byte input it succeeds exactly when the shared one succeeds, and on success
\* both give the same schema_id and the same payload.
C40_ExtractsAgree ==
    extracted # NotRun =>
        LET avro == avro_extract_id_and_payload(wire) IN
        /\ IsOk(avro) <=> IsOk(extracted)
        /\ IsOk(extracted) =>
              /\ avro[2].schema_id = extracted[2].schema_id
              /\ avro[2].payload = extracted[2].payload

\* both extracts have accepted a frame that carries a payload
C40_Witness ==
    /\ IsOk(extracted)
    /\ IsOk(avro_extract_id_and_payload(wire))
    /\ Len(extracted[2].payload) > 0

\* C36: alias lookups pay one round-trip the first time only.  Task r holds the
\* result of a successful get_schema_by_subject(alias, v) that resolved to an
\* id; a call another task starts after that
AliasResolved(r) ==
    /\ task[r].pc = "done"
    /\ task[r].op = "get_schema_by_subject"
    /\ task[r].subject = "al"
    /\ IsOk(task[r].result)

\* task t starts a call in this step
Starts(t) == task[t].pc = "idle" /\ task'[t].pc # "idle"

\* C36 as claimed: after the first successful get_schema_by_subject(alias, v),
\* a repeated lookup by the alias, get_schema_by_id of the id it resolved to and
\* get_schema_by_subject by the canonical name are all served from the caches
\* with zero HTTP requests.
C36_AliasStepClaimed ==
    \A t, r \in Tasks :
        AliasResolved(r) /\ Starts(t) /\
        (\/ task'[t].op = "get_schema_by_subject"
         \/ /\ task'[t].op = "get_schema_by_id"
            /\ task'[t].id = RegistrySubject("al", task[r].version).id)
        => /\ task'[t].nreq = 0
           /\ task'[t].pc = "done"

C36_AliasServedFromCache == [][C36_AliasStepClaimed]_vars

\* C36 amended: after the first successful get_schema_by_subject(alias, v),
\* get_schema_by_id of the id it resolved to and get_schema_by_subject by the
\* canonical name the registry answered with are served from the caches with
\* zero HTTP requests; a repeated lookup by the alias misses the subject cache,
\* whose key is the canonical name, and issues one request per url again.
C36_AliasStep ==
    \A t, r \in Tasks :
        AliasResolved(r) /\ Starts(t) =>
            /\ task'[t].op = "get_schema_by_id"
               /\ task'[t].id = RegistrySubject("al", task[r].version).id
               => /\ task'[t].nreq = 0
                  /\ task'[t].pc = "done"
                  /\ IsOk(task'[t].result)
            /\ task'[t].op = "get_schema_by_subject" /\ task'[t].subject = "s"
               => /\ task'[t].nreq = 0
                  /\ task'[t].pc = "done"
                  /\ IsOk(task'[t].result)
            /\ task'[t].op = "get_schema_by_subject" /\ task'[t].subject = "al"
               => /\ task'[t].nreq = Cardinality(Urls)
                  /\ task'[t].pc = "racing"

C36_CanonicalNameServedFromCache == [][C36_AliasStep]_vars

\* an alias lookup has returned its schema, and a lookup by the alias made while
\* that result is held is racing its requests again
C36_Witness ==
    \E t, r \in Tasks :
        /\ AliasResolved(r)
        /\ task[t].op = "get_schema_by_subject"
        /\ task[t].subject = "al"
        /\ task[t].pc = "racing"
        /\ task[t].nreq = Cardinality(Urls)
        /\ subject_cache["s"] # None
        /\ subject_cache["al"] = None

\* C37: in every reachable state, the states between the two inserts of
\* insert_subject_cache under concurrent tasks included, every id stored as a
\* value in subjectCache is a key of idCache; so a get_schema_by_subject that
\* hits subjectCache is always answered from idCache with zero HTTP requests.
C37_SubjectIdsCached ==
    \A s \in SubjectNames :
        subject_cache[s] # None => id_cache[subject_cache[s][2]] # None

C37_HitStep ==
    \A t \in Tasks :
        /\ Starts(t)
        /\ task'[t].op = "get_schema_by_subject"
        /\ subject_cache[task'[t].subject] # None
        => /\ task'[t].nreq = 0
           /\ task'[t].pc = "done"
           /\ task'[t].result = Ok(id_cache[subject_cache[task'[t].subject][2]][2])

C37_SubjectCacheBackedByIdCache == []C37_SubjectIdsCached /\ [][C37_HitStep]_vars

\* one task is between the two inserts of insert_subject_cache, its id already
\* in idCache and not yet the value in subjectCache, while the other task's
\* get_schema_by_subject has hit subjectCache and returned without a request
C37_Witness ==
    \E t, r \in Tasks :
        /\ task[t].pc = "inserting"
        /\ subject_cache[task[t].resp.subject] # Some(task[t].resp.id)
        /\ task[r].pc = "done"
        /\ task[r].op = "get_schema_by_subject"
        /\ task[r].nreq = 0
        /\ IsOk(task[r].result)

\* C38: no retry, and every operation ends.  A cache-missing operation issues
\* exactly one request per configured url and goes on to return, with success
\* as soon as a request succeeded and with an error once all of them failed: on
\* every client that from_conf built, the first cache-missing operation has put
\* one request per url in flight and select_ok is awaiting them; it has not
\* stopped in a panic.
C38_EveryOperationEnds ==
    raced # NotRun =>
        /\ raced[1] = "Raced"
        /\ Len(raced[2]) = Len(built[2].urls)

(***************************************************************************)
(* The cache of the blocking ProtoDecoder, checked under SpecProto         *)
(***************************************************************************)
\* decode is called in this step
DecodeStarts == job.pc = "idle" /\ job'.op = "decode" /\ job'.pc # "idle"

\* C32: the blocking ProtoDecoder caches errors per schema id.  The error of a
\* failed fetch by id is kept in the cache marked cached, and it is what the
\* failing decode returns; every later decode with that id returns the cached
\* error without a request to the registry, whatever the registry could serve by
\* then; the entry goes only by remove_errors_from_cache, and a decode with an
\* id that has no entry fetches the schema by id.
C32_ErrorsMarked ==
    /\ \A i \in ProtoIds :
          (IsErr(job.cache[i]) /\ job.cache[i][2].error = "get_schema_by_id_and_type")
          => job.cache[i][2].cached
    /\ (job.op = "decode" /\ job.pc = "done" /\ job.fetches = <<<<"id", job.id>>>>
        /\ IsErr(job.result))
       => job.result = Err(SRCError("get_schema_by_id_and_type", TRUE))

C32_CacheStep ==
    /\ DecodeStarts /\ IsErr(job.cache[job'.id])
       => /\ job'.pc = "done"
          /\ job'.result = job.cache[job'.id]
          /\ job'.fetches = <<>>
          /\ job'.cache = job.cache
    /\ DecodeStarts /\ job.cache[job'.id] = None
       => job'.fetches = <<<<"id", job'.id>>>>
    /\ \A i \in ProtoIds :
          IsErr(job.cache[i]) /\ job'.cache[i] # job.cache[i]
          => /\ job'.op = "remove_errors_from_cache"
             /\ job'.cache[i] = None

C32_ErrorsCachedPerId == []C32_ErrorsMarked /\ [][C32_CacheStep]_vars

\* a decode with the late id has returned the cached error, marked cached,
\* without a fetch, at a time the registry serves that id
C32_Witness ==
    /\ job.op = "decode"
    /\ job.pc = "done"
    /\ job.id = LateSchema.id
    /\ job.fetches = <<>>
    /\ IsErr(job.result)
    /\ job.result[2].cached
    /\ IsOk(get_schema_by_id_and_type(registry, job.id))

\* C33: remove_errors_from_cache removes exactly the cache entries whose value is
\* an error.  Every decode context built successfully stays in the cache
\* unchanged through every step, so a decode with an id that was decoded
\* successfully once is answered from the cache without a fetch, before and
\* after any number of remove_errors_from_cache calls.
C33_CacheStep ==
    /\ job'.op = "remove_errors_from_cache" /\ job' # job
       => \A i \in ProtoIds :
             job'.cache[i] = IF IsErr(job.cache[i]) THEN None ELSE job.cache[i]
    /\ \A i \in ProtoIds : IsOk(job.cache[i]) => job'.cache[i] = job.cache[i]
    /\ DecodeStarts /\ IsOk(job.cache[job'.id])
       => /\ job'.fetches = <<>>
          /\ job'.pc = "done"
          /\ job'.result = job.cache[job'.id]

C33_OnlyErrorsRemoved == [][C33_CacheStep]_vars

\* remove_errors_from_cache has just taken an error entry out of a cache that
\* also holds a decode context, which is still there
C33_Witness ==
    /\ job.op = "remove_errors_from_cache"
    /\ \E i \in ProtoIds : IsErr(job.before[i]) /\ job.cache[i] = None
    /\ \E i \in ProtoIds : IsOk(job.before[i]) /\ job.cache[i] = job.before[i]

\* the context of job.id was built in this decode: the schema was fetched, and
\* add_files went through every reference without a failing fetch
FilesComplete ==
    /\ job.op = "decode"
    /\ job.pc = "done"
    /\ job.schema # None
    /\ \A k \in 2..Len(job.fetches) :
          IsOk(client_get_schema_by_subject(registry, job.fetches[k][1], job.fetches[k][2]))

\* C34: add_files accumulates sources in post-order.  For every acyclic
\* reference graph, the source of each referenced schema stands in the files
\* before the source of every schema referring to it, and the root's source is
\* last; when the fetch of a referenced schema fails, the construction of the
\* context fails with that error, no further fetch is made, and that error is the
\* cache entry of the root id.
C34_PostOrder ==
    /\ (FilesComplete /\ Acyclic(registry, job.schema[2])) =>
          LET root == job.schema[2] IN
          /\ job.files # <<>>
          /\ job.files[Len(job.files)] = root.schema
          /\ \A e \in Reachable(registry, root) :
                \E k \in 1..(Len(job.files) - 1) : job.files[k] = e.schema
          /\ \A l \in 1..Len(job.files) :
                \A e \in {o \in registry : o.id = root.id} \cup Reachable(registry, root) :
                    e.schema = job.files[l] =>
                        \A d \in Referenced(registry, {e}) :
                            \E k \in 1..Len(job.files) : k < l /\ job.files[k] = d.schema
    /\ (job.op = "decode" /\ job.pc = "done") =>
          \A k \in 2..Len(job.fetches) :
             IsErr(client_get_schema_by_subject(registry, job.fetches[k][1], job.fetches[k][2]))
             => /\ k = Len(job.fetches)
                /\ job.result = Err(SRCError("get_referenced_schema", FALSE))
                /\ job.cache[job.id] = job.result

\* the context of book-value was built over a chain of references: the files
\* are the source of address-value, of author-value, of book-value, in this order
C34_Witness ==
    /\ FilesComplete
    /\ Acyclic(registry, job.schema[2])
    /\ IsOk(job.result)
    /\ Len(job.files) = 3
    /\ job.files[1].name = "Address"
    /\ job.files[2].name = "Author"
    /\ job.files[3].name = "Book"

(***************************************************************************)
(* The codecs side by side, checked under SpecSerde                        *)
(***************************************************************************)
\* C31: the Protobuf codec round-trips like the other two: serialize returns the
\* frame followed by the message-index path and the encoded message, deserialize
\* extracts the header, fetches the schema by id and decodes.  Every serialize
\* and every deserialize call of the Protobuf codec returns a value or an error.
C31_ProtoCallsReturn ==
    (/\ job.op \in {"proto_serialize_value", "proto_serialize_key", "proto_deserialize"}
     /\ job.pc = "done")
        => IsOk(job.result) \/ IsErr(job.result)

\* C39: every deserializer, Avro, JSON and Protobuf, extracts the frame before
\* anything else.  When the extraction fails (no data, fewer than 5 bytes,
\* another magic byte) deserialize returns its codec's error holding the framing
\* failure and has made no registry call; when the fetch of the frame's id fails
\* it returns the registry's error in its codec's error after that one call,
\* and nothing was decoded.
FrameValid(data) == data # None /\ Len(data[2]) >= 5 /\ data[2][1] = 0

FramingFailure(data) ==
    IF data = None THEN "EmptyData"
    ELSE IF Len(data[2]) < 5 THEN "InvalidDataLength" ELSE "InvalidMagicByte"

C39_ExtractFirst ==
    job.op \in {"deserialize", "json_deserialize", "proto_deserialize"} =>
        LET id == from_be_bytes(SubSeq(job.wire[2], 2, 5)) IN
        /\ job.fetches # <<>> => FrameValid(job.wire)
        /\ job.pc = "by_id" => FrameValid(job.wire) /\ job.fetches = <<>>
        /\ (job.pc = "done" /\ ~FrameValid(job.wire)) =>
              /\ job.fetches = <<>>
              /\ job.result =
                    IF job.op = "deserialize"
                    THEN Err(IF job.wire = None THEN "empty payload" ELSE "invalid payload")
                    ELSE Err(<<"Extract", FramingFailure(job.wire)>>)
        /\ (job.pc = "done" /\ FrameValid(job.wire) /\ ~\E e \in registry : e.id = id) =>
              /\ job.fetches = <<<<"id", id>>>>
              /\ job.result = Err("SchemaRegistry")

\* the Protobuf deserializer was given a frame that starts with another magic
\* byte, and returned the extraction's InvalidMagicByte without a registry call
C39_Witness ==
    /\ job.op = "proto_deserialize"
    /\ job.pc = "done"
    /\ job.wire # None
    /\ Len(job.wire[2]) >= 5
    /\ job.result = Err(<<"Extract", "InvalidMagicByte">>)
    /\ job.fetches = <<>>

====
